---------------------------- MODULE Spec2Model ----------------------------
(***************************************************************************)
(* Verification model of ministark's Brainfuck input/output table          *)
(* (brainfuck/src/io_table.rs) and of the padding protocol that drives it. *)
(*                                                                         *)
(* The field types F and E of the source are instantiated with one small   *)
(* prime field (E = F is the degree-one extension), so that every field    *)
(* element can be enumerated.                                              *)
(***************************************************************************)
EXTENDS Integers, Sequences, FiniteSets, TLC

(***************************************************************************)
(* Bounds of the model                                                     *)
(***************************************************************************)

\* index into SmallPrimes of the modulus of the field F = E
FieldIndex == 3

\* longest base matrix handed to set_matrix
MaxLen == 5

\* largest target height handed to pad
MaxTarget == 10

\* the minimum trace length floor used by the padding protocol of a Trace
\* (TraceInfo::MIN_TRACE_LENGTH is 2048; the protocol is parametric in it)
TraceFloor == 2

\* longest base matrix of a table of the Trace
MaxTraceLen == 3

\* most columns of a Matrix under test
MaxCols == 2

\* the bits of a usize of the model (the targets have 32 or 64): wide enough
\* for every constant of the program
UsizeBits == 20

\* TraceInfo::MIN_TRACE_LENGTH
MIN_TRACE_LENGTH == 2048

\* TraceInfo::MAX_TRACE_WIDTH
MAX_TRACE_WIDTH == 255

\* TraceInfo::MAX_META_BYTES
MAX_META_BYTES == 65535

\* most positions a Queries bundle is built over
MaxPositions == 2

\* the bits of a u32 of the model: fewer than half the bits of a usize, as on
\* the 64-bit target of the GPU stages
U32Bits == 8

\* most threads of the rayon pool
MaxThreads == 2

\* smallest chunk of rows hash_rows gives a thread (parallel build)
HashChunkMin == 128

\* smallest chunk of rows sum_columns_cpu gives a thread (parallel build)
SumChunkMin == 1024

(***************************************************************************)
(* Field arithmetic (F: StarkFelt + PrimeFelt, E: Felt + ExtensionOf<F>)    *)
(***************************************************************************)

SmallPrimes == <<2, 3, 5, 7, 11, 13>>

FieldOrder == SmallPrimes[FieldIndex]

Felt == 0 .. (FieldOrder - 1)

FAdd(a, b) == (a + b) % FieldOrder

FSub(a, b) == (a + FieldOrder - b) % FieldOrder

FMul(a, b) == (a * b) % FieldOrder

\* Felt::pow(&[n]): the n-fold product of a with itself, a^0 = 1
RECURSIVE FPow(_, _)
FPow(a, n) == IF n = 0 THEN 1 % FieldOrder ELSE FMul(a, FPow(a, n - 1))

\* F::zero()
FZero == 0

(***************************************************************************)
(* IoTable<F, E>                                                           *)
(***************************************************************************)

\* Option<T>: None is the empty sequence, Some(x) the one-element sequence
None == <<>>

Some(x) == <<x>>

\* column indices (0-based in the source, 1-based sequences here)
VALUE == 0

EVALUATION == 1

\* the base values of the model (the source's are the bytes read or written,
\* lifted into F)
BaseValues == {0, 1}

\* every base matrix Vec<[F; BASE_WIDTH]> of at most n rows (BASE_WIDTH = 1:
\* a row is its single value)
BaseMatrices(n) == UNION {[1 .. k -> BaseValues] : k \in 0 .. n}

\* IoTable::new
new == [num_padded_rows |-> 0, matrix |-> <<>>, extended_matrix |-> None]

\* the outcome of a usize subtraction that underflows ("attempt to subtract
\* with overflow"): a value no usize has
Underflow == 0 - 1

\* IoTable::len
len(self) ==
    IF self.num_padded_rows > Len(self.matrix)
    THEN Underflow
    ELSE Len(self.matrix) - self.num_padded_rows

\* IoTable::height
height(self) == Len(self.matrix)

\* pad with the padding counter bumped twice per appended row
RECURSIVE pad_double_count(_, _)
pad_double_count(self, n) ==
    IF Len(self.matrix) < n
    THEN pad_double_count([self EXCEPT !.matrix = Append(@, FZero),
                                       !.num_padded_rows = @ + 2], n)
    ELSE self

\* pad with the loop condition matrix.len() + 1 < n: stops one row short
RECURSIVE pad_one_short(_, _)
pad_one_short(self, n) ==
    IF Len(self.matrix) + 1 < n
    THEN pad_one_short([self EXCEPT !.matrix = Append(@, FZero),
                                    !.num_padded_rows = @ + 1], n)
    ELSE self

\* pad that returns at once on a table without rows
pad_skips_empty(self, n) ==
    IF Len(self.matrix) = 0 THEN self ELSE pad_one_short(self, n + 1)

\* pad that appends copies of the last row instead of zero rows
RECURSIVE pad_repeats_last(_, _)
pad_repeats_last(self, n) ==
    IF Len(self.matrix) < n
    THEN pad_repeats_last(
            [self EXCEPT !.matrix = Append(@, IF Len(@) = 0 THEN FZero ELSE @[Len(@)]),
                         !.num_padded_rows = @ + 1], n)
    ELSE self

\* pad that appends rows holding one instead of zero
RECURSIVE pad_ones(_, _)
pad_ones(self, n) ==
    IF Len(self.matrix) < n
    THEN pad_ones([self EXCEPT !.matrix = Append(@, 1 % FieldOrder),
                               !.num_padded_rows = @ + 1], n)
    ELSE self

\* pad as a do-while loop: pushes a row before it tests the height
RECURSIVE pad_loop(_, _)
pad_push_first(self, n) ==
    pad_loop([self EXCEPT !.matrix = Append(@, FZero),
                          !.num_padded_rows = @ + 1], n)

\* the while loop of IoTable::pad
pad_loop(self, n) ==
    IF Len(self.matrix) < n
    THEN pad_loop([self EXCEPT !.matrix = Append(@, FZero),
                               !.num_padded_rows = @ + 1], n)
    ELSE self

\* IoTable::pad
pad(self, n) == pad_loop(self, n)

\* set_matrix without the reset of the padding counter
set_matrix_keeps_padding(self, matrix) == [self EXCEPT !.matrix = matrix]

\* IoTable::set_matrix
set_matrix(self, matrix) ==
    [self EXCEPT !.num_padded_rows = 0, !.matrix = matrix]

(***************************************************************************)
(* Multivariate<E>: the constraint generators only build polynomials of    *)
(* degree one, kept here as the coefficient of every variable and the      *)
(* constant term.                                                          *)
(***************************************************************************)

\* Multivariate::variables(n): the n polynomials x_0 .. x_{n-1}
Variables(n) ==
    [i \in 1 .. n |->
        [coeffs |-> [j \in 1 .. n |-> IF j = i THEN 1 % FieldOrder ELSE 0],
         constant |-> 0]]

\* Multivariate + Multivariate
PolyAdd(p, q) ==
    [coeffs |-> [j \in DOMAIN p.coeffs |-> FAdd(p.coeffs[j], q.coeffs[j])],
     constant |-> FAdd(p.constant, q.constant)]

\* Multivariate - Multivariate
PolySub(p, q) ==
    [coeffs |-> [j \in DOMAIN p.coeffs |-> FSub(p.coeffs[j], q.coeffs[j])],
     constant |-> FSub(p.constant, q.constant)]

\* Multivariate * E
PolyScale(p, c) ==
    [coeffs |-> [j \in DOMAIN p.coeffs |-> FMul(p.coeffs[j], c)],
     constant |-> FMul(p.constant, c)]

\* Multivariate - E
PolySubConst(p, c) == [p EXCEPT !.constant = FSub(@, c)]

RECURSIVE DotProduct(_, _, _)
DotProduct(coeffs, point, n) ==
    IF n = 0 THEN 0
    ELSE FAdd(DotProduct(coeffs, point, n - 1), FMul(coeffs[n], point[n]))

\* Multivariate::evaluate: the value of p at a point (one field element per variable)
Evaluate(p, point) ==
    FAdd(DotProduct(p.coeffs, point, Len(p.coeffs)), p.constant)

(***************************************************************************)
(* IoTable's constraint generators                                         *)
(***************************************************************************)

\* a boundary generator that adds the two variables instead of subtracting
boundary_constraints_sum ==
    LET variables == Variables(2)
    IN  <<PolyAdd(variables[EVALUATION + 1], variables[VALUE + 1])>>

\* IoTable::extension_boundary_constraints
extension_boundary_constraints ==
    LET variables == Variables(2)
    IN  <<PolySub(variables[EVALUATION + 1], variables[VALUE + 1])>>

\* IoTable::extension_transition_constraints
extension_transition_constraints(challenge) ==
    LET variables == Variables(4)
        value == variables[VALUE + 1]
        evaluation == variables[EVALUATION + 1]
        value_next == variables[VALUE + 1]
        evaluation_next == variables[EVALUATION + 1]
    IN  <<PolySub(PolyAdd(PolyScale(evaluation, challenge), value_next),
                  evaluation_next)>>

\* extension_terminal_constraints with the padding offset left out
terminal_constraints_no_offset(self, challenge, terminal) ==
    LET variables == Variables(2)
    IN  <<PolySubConst(variables[EVALUATION + 1], terminal)>>

\* extension_terminal_constraints with challenge^height() as the offset
terminal_constraints_offset_by_height(self, challenge, terminal) ==
    LET variables == Variables(2)
        offset == FPow(challenge, Len(self.matrix))
        actual_terminal == FMul(terminal, offset)
    IN  <<PolySubConst(variables[EVALUATION + 1], actual_terminal)>>

\* IoTable::extension_terminal_constraints
extension_terminal_constraints(self, challenge, terminal) ==
    LET variables == Variables(2)
        offset == FPow(challenge, self.num_padded_rows)
        actual_terminal == FMul(terminal, offset)
    IN  <<PolySubConst(variables[EVALUATION + 1], actual_terminal)>>

(***************************************************************************)
(* The extension column.  extend() of the two IO tables is left            *)
(* unimplemented in io_table.rs; the column is built as the design          *)
(* describes it: the evaluation starts from the caller's initial value and *)
(* every further row applies evaluation' = evaluation * challenge + value'. *)
(***************************************************************************)

\* the running evaluation at row i (1-based) of the base matrix
RECURSIVE running_evaluation(_, _, _, _)
running_evaluation(matrix, challenge, initial, i) ==
    IF i = 1
    THEN initial
    ELSE FAdd(FMul(running_evaluation(matrix, challenge, initial, i - 1), challenge),
              matrix[i])

\* the extended matrix Vec<[E; EXTENSION_WIDTH]>: row i is <<value_i, evaluation_i>>
extend(self, challenge, initial) ==
    [self EXCEPT !.extended_matrix =
        Some([i \in 1 .. Len(self.matrix) |->
                <<self.matrix[i],
                  running_evaluation(self.matrix, challenge, initial, i)>>])]

\* the outcome of a call: a normal return with its value, or a panic
Ok(val) == [ok |-> TRUE, val |-> val]

Panic(msg) == [ok |-> FALSE, msg |-> msg]

\* <OutputTable as Table>::extend: the body is todo!()
OutputTable_extend(self, challenges, initials) == Panic("not yet implemented")

\* <InputTable as Table>::extend: the body is todo!()
InputTable_extend(self, challenges, initials) == Panic("not yet implemented")

\* the challenges a generator of the IO tables takes from the iterator: _a, _b,
\* _c, _d, _e, _f, _alpha, _beta, gamma, delta, _eta
CHALLENGES_READ == 11

\* the position of gamma, counted from 0
GAMMA == 8

\* the position of delta, counted from 0
DELTA == 9

\* the terminals a terminal generator takes from the iterator
TERMINALS_READ == 5

\* the position of processor_input_evaluation_terminal, counted from 0
PROCESSOR_INPUT_EVALUATION_TERMINAL == 2

\* the position of processor_output_evaluation_terminal, counted from 0
PROCESSOR_OUTPUT_EVALUATION_TERMINAL == 3

\* count times iter.next().unwrap() over a slice: the values taken
next_unwrap(slice, count) ==
    IF Len(slice) < count THEN Panic("called Option::unwrap() on a None value")
    ELSE Ok(SubSeq(slice, 1, count))

\* a transition generator of the output table that takes gamma
OutputTable_transition_constraints_gamma(challenges) ==
    LET taken == next_unwrap(challenges, CHALLENGES_READ)
    IN  IF ~taken.ok THEN taken
        ELSE Ok(extension_transition_constraints(taken.val[GAMMA + 1]))

\* <OutputTable as Table>::extension_transition_constraints
OutputTable_extension_transition_constraints(challenges) ==
    LET taken == next_unwrap(challenges, CHALLENGES_READ)
    IN  IF ~taken.ok THEN taken
        ELSE Ok(extension_transition_constraints(taken.val[DELTA + 1]))

\* <OutputTable as Table>::extension_terminal_constraints
OutputTable_extension_terminal_constraints(self, challenges, terminals) ==
    LET taken == next_unwrap(challenges, CHALLENGES_READ)
        terminal == next_unwrap(terminals, TERMINALS_READ)
    IN  IF ~taken.ok THEN taken
        ELSE IF ~terminal.ok THEN terminal
        ELSE Ok(extension_terminal_constraints(self, taken.val[DELTA + 1],
                    terminal.val[PROCESSOR_OUTPUT_EVALUATION_TERMINAL + 1]))

\* <InputTable as Table>::extension_transition_constraints
InputTable_extension_transition_constraints(challenges) ==
    LET taken == next_unwrap(challenges, CHALLENGES_READ)
    IN  IF ~taken.ok THEN taken
        ELSE Ok(extension_transition_constraints(taken.val[GAMMA + 1]))

\* <InputTable as Table>::extension_terminal_constraints
InputTable_extension_terminal_constraints(self, challenges, terminals) ==
    LET taken == next_unwrap(challenges, CHALLENGES_READ)
        terminal == next_unwrap(terminals, TERMINALS_READ)
    IN  IF ~taken.ok THEN taken
        ELSE IF ~terminal.ok THEN terminal
        ELSE Ok(extension_terminal_constraints(self, taken.val[GAMMA + 1],
                    terminal.val[PROCESSOR_INPUT_EVALUATION_TERMINAL + 1]))

\* usize::next_power_of_two: the smallest power of two >= n
RECURSIVE next_power_of_two_from(_, _)
next_power_of_two_from(n, p) ==
    IF p >= n THEN p ELSE next_power_of_two_from(n, 2 * p)

next_power_of_two(n) == next_power_of_two_from(n, 1)

\* the tables of a Trace
TableIds == {"input", "output"}

RECURSIVE SetMax(_)
SetMax(S) ==
    IF S = {} THEN 0
    ELSE LET x == CHOOSE y \in S : TRUE
             m == SetMax(S \ {x})
         IN  IF x >= m THEN x ELSE m

\* phase 2 of the Trace: the common height every table is padded to
target_height_of(tables) ==
    next_power_of_two(SetMax({len(tables[t]) : t \in TableIds} \cup {TraceFloor}))

\* phase 2 of the Trace: pad(target_height) on every table
pad_tables(tables, target) == [t \in TableIds |-> pad(tables[t], target)]

(***************************************************************************)
(* Matrix (src/src/matrix.rs): a Vec of columns, each column a Vec of      *)
(* field elements.  Row and column indices of the code are 0-based; a      *)
(* sequence of the model holds index i at position i + 1.                  *)
(***************************************************************************)

\* the entries the matrices under test are built from: zero and -1
MatValues == {0, FieldOrder - 1}

SeqsUpTo(S, n) == UNION {[1 .. k -> S] : k \in 0 .. n}

\* the numbers of rows of the matrices under test
RowCounts == 0 .. 3

SeqsOfLen(S, lens) == UNION {[1 .. k -> S] : k \in lens}

\* the columns and the matrices under test: Matrix::new takes any columns
Columns == SeqsOfLen(MatValues, RowCounts)

Matrices(k) == SeqsUpTo(Columns, k)

Min(a, b) == IF a <= b THEN a ELSE b

\* Matrix::new
Matrix_new(cols) == cols

\* `for (col, value) in cols.iter_mut().zip(row) { col.push(value) }`
push_row(cols, row) ==
    [j \in 1 .. Len(cols) |->
        IF j <= Len(row) THEN Append(cols[j], row[j]) ELSE cols[j]]

\* `for row in rows { ... }` of from_rows and from_arrays, from row i on;
\* debug_assert_eq!(row.len(), num_cols) is compiled in with debug assertions
RECURSIVE from_rows_loop(_, _, _, _)
from_rows_loop(rows, i, cols, debug_assertions) ==
    IF i > Len(rows) THEN Ok(Matrix_new(cols))
    ELSE IF debug_assertions /\ Len(rows[i]) # Len(cols)
         THEN Panic("assertion failed: row.len() == num_cols")
         ELSE from_rows_loop(rows, i + 1, push_row(cols, rows[i]), debug_assertions)

\* a from_rows that lays the rows out as the columns
from_rows_untransposed(rows, debug_assertions) == Ok(Matrix_new(rows))

\* Matrix::from_rows
from_rows(rows, debug_assertions) ==
    LET num_cols == IF rows = <<>> THEN 0 ELSE Len(rows[1])
        cols == [j \in 1 .. num_cols |-> <<>>]
    IN  from_rows_loop(rows, 1, cols, debug_assertions)

\* Matrix::from_arrays::<NUM_COLS>: every row is an array of NUM_COLS elements
from_arrays(rows, NUM_COLS) ==
    LET cols == [j \in 1 .. NUM_COLS |-> <<>>]
    IN  from_rows_loop(rows, 1, cols, FALSE)

\* a num_rows that trusts the first column
num_rows_unchecked(self) ==
    IF self = <<>> THEN Ok(0) ELSE Ok(Len(self[1]))

\* Matrix::num_rows
num_rows(self) ==
    IF self = <<>> THEN Ok(0)
    ELSE LET expected_len == Len(self[1])
         IN  IF \E i \in 1 .. Len(self) : Len(self[i]) # expected_len
             THEN Panic("length of column is invalid")
             ELSE Ok(expected_len)

\* an append that puts the other matrix's columns first
append_in_front(self, other) == other \o self

\* Matrix::append: `for col in other.0 { self.0.push(col) }`, from column i on
RECURSIVE append_loop(_, _, _)
append_loop(cols, other, i) ==
    IF i > Len(other) THEN cols
    ELSE append_loop(Append(cols, other[i]), other, i + 1)

append(self, other) == append_loop(self, other, 1)

\* Matrix::join: Vec::append moves every column of the matrix to the end of
\* the accumulator
RECURSIVE join_loop(_, _, _)
join_loop(accumulator, matrices, i) ==
    IF i > Len(matrices) THEN Matrix_new(accumulator)
    ELSE join_loop(accumulator \o matrices[i], matrices, i + 1)

join(matrices) == join_loop(<<>>, matrices, 1)

\* Matrix::num_cols
num_cols(self) == Len(self)

\* Matrix::is_empty
is_empty(self) ==
    LET n == num_rows(self)
    IN  IF n.ok THEN Ok(n.val = 0) ELSE n

\* Matrix::get_row
get_row(self, row) ==
    LET n == num_rows(self)
    IN  IF ~n.ok THEN n
        ELSE IF row < n.val
             THEN Ok(Some([j \in 1 .. Len(self) |-> self[j][row + 1]]))
             ELSE Ok(None)

\* a read_row that checks the column lengths first
read_row_checked(self, row_idx, row) ==
    LET n == num_rows(self)
    IN  IF ~n.ok THEN n
        ELSE IF row_idx >= n.val /\ Len(self) > 0 /\ Len(row) > 0
             THEN Panic("index out of bounds")
             ELSE Ok([j \in 1 .. Len(row) |->
                         IF j <= Len(self) THEN self[j][row_idx + 1] ELSE row[j]])

\* Matrix::read_row: zip stops at the shorter of the columns and the buffer;
\* column[row_idx] panics past the end of the column
read_row(self, row_idx, row) ==
    LET zipped == Min(Len(self), Len(row))
    IN  IF \E j \in 1 .. zipped : row_idx >= Len(self[j])
        THEN Panic("index out of bounds")
        ELSE Ok([j \in 1 .. Len(row) |->
                    IF j <= zipped THEN self[j][row_idx + 1] ELSE row[j]])

\* Matrix::rows
rows(self) ==
    LET n == num_rows(self)
    IN  IF ~n.ok THEN n
        ELSE Ok([i \in 1 .. n.val |-> get_row(self, i - 1).val[1]])

\* the builds of the chunked loops: without the "parallel" feature, or with
\* it on a pool of rayon::current_num_threads() threads
ChunkConfigs ==
    {[parallel |-> FALSE, threads |-> 1]}
        \cup {[parallel |-> TRUE, threads |-> t] : t \in 1 .. MaxThreads}

\* the chunk_size of hash_rows and sum_columns_cpu over n rows
chunk_size(n, cfg, smallest) ==
    IF cfg.parallel
    THEN LET share == n \div next_power_of_two(cfg.threads)
         IN  IF share >= smallest THEN share ELSE smallest
    ELSE n

\* H::hash_elements, an ideal hash: the digest determines the elements
hash_elements(elements) == <<1>> \o elements

\* H::Digest::default()
DigestDefault == <<0>>

\* a hash_rows that hashes the first column only
hash_rows_first_column(self, cfg) ==
    LET n == num_rows(self)
    IN  IF ~n.ok THEN n
        ELSE Ok([k \in 1 .. n.val |-> hash_elements(<<self[1][k]>>)])

\* Matrix::hash_rows: chunks_mut panics on a chunk size of zero; digest k - 1
\* lies in chunk (k - 1) / chunk_size at position i of it
hash_rows(self, cfg) ==
    LET n == num_rows(self)
    IN  IF ~n.ok THEN n
        ELSE LET size == chunk_size(n.val, cfg, HashChunkMin)
             IN  IF size = 0 THEN Panic("chunk size must be non-zero")
                 ELSE Ok([k \in 1 .. n.val |->
                        LET chunk_offset == (k - 1) \div size
                            offset == size * chunk_offset
                            i == (k - 1) - offset
                            row_buffer == [j \in 1 .. num_cols(self) |-> FZero]
                        IN  hash_elements(read_row(self, offset + i, row_buffer).val)])

\* crate::utils::horner_evaluate: the value at point of the polynomial with
\* the given coefficients, lowest degree first
RECURSIVE horner_evaluate_from(_, _, _)
horner_evaluate_from(coefficients, point, i) ==
    IF i > Len(coefficients) THEN FZero
    ELSE FAdd(coefficients[i],
              FMul(point, horner_evaluate_from(coefficients, point, i + 1)))

horner_evaluate(coefficients, point) == horner_evaluate_from(coefficients, point, 1)

\* Matrix::evaluate_at
evaluate_at(self, x) == [j \in 1 .. Len(self) |-> horner_evaluate(self[j], x)]

\* a degree scan from the lowest index up
degree_scan_lowest(col, i) ==
    IF \E k \in 1 .. Len(col) : col[k] # FZero
    THEN (CHOOSE k \in 1 .. Len(col) :
              col[k] # FZero /\ \A l \in 1 .. (k - 1) : col[l] = FZero) - 1
    ELSE 0

\* `for i in (0..col.len()).rev() { if !col[i].is_zero() { return i } } 0`,
\* from index i down
RECURSIVE degree_scan(_, _)
degree_scan(col, i) ==
    IF i < 0 THEN 0
    ELSE IF col[i + 1] # FZero THEN i
         ELSE degree_scan(col, i - 1)

\* Matrix::column_degrees
column_degrees(self) ==
    [j \in 1 .. Len(self) |-> degree_scan(self[j], Len(self[j]) - 1)]

\* `for column in &self.0 { chunk[i] += column[offset + i] }` for one entry of
\* the accumulator, over the first j columns
RECURSIVE add_columns(_, _, _)
add_columns(self, j, idx) ==
    IF j = 0 THEN FZero
    ELSE FAdd(add_columns(self, j - 1, idx), self[j][idx])

\* Matrix::sum_columns_cpu: chunks_mut panics on a chunk size of zero; the
\* inner loop runs i over 0..chunk_size, past the end of a last chunk that is
\* shorter than chunk_size
sum_columns_cpu(self, cfg) ==
    LET n == num_rows(self)
    IN  IF ~n.ok THEN n
        ELSE LET accumulator == [i \in 1 .. n.val |-> FZero]
                 size == chunk_size(n.val, cfg, SumChunkMin)
             IN  IF num_cols(self) = 0 THEN Ok(Matrix_new(<<accumulator>>))
                 ELSE IF size = 0 THEN Panic("chunk size must be non-zero")
                 ELSE IF n.val % size # 0 THEN Panic("index out of bounds")
                 ELSE Ok(Matrix_new(
                        <<[i \in 1 .. n.val |-> add_columns(self, Len(self), i)]>>))

\* cfg_chunks_mut!(accumulator, chunk_size): the chunks of a vector of the
\* given length, each by its number and its length; the last may be shorter
chunks_mut(length, size) ==
    IF size = 0 THEN Panic("chunk size must be non-zero")
    ELSE Ok([c \in 1 .. ((length + size - 1) \div size) |->
               [chunk_offset |-> c - 1,
                len |-> Min(size, length - (c - 1) * size)]])

\* for i in 0..chunk_size, the indices of the inner loop of sum_columns_cpu
sum_loop_indices(size) == 0 .. (size - 1)

\* Matrix::sum_columns without the "gpu" feature
sum_columns(self, cfg) == sum_columns_cpu(self, cfg)

(***************************************************************************)
(* The transforms of a Matrix over a Radix2EvaluationDomain: the coset     *)
(* offset * <group_gen> of a multiplicative subgroup of power-of-two size. *)
(***************************************************************************)

\* Field::inverse of a non-zero element
FInv(x) == FPow(x, FieldOrder - 2)

\* x generates a subgroup of exactly n elements
HasOrder(x, n) == FPow(x, n) = 1 /\ \A k \in 1 .. (n - 1) : FPow(x, k) # 1

\* the sizes a Radix2EvaluationDomain of the field can have: the powers of
\* two that divide the order of the multiplicative group
DomainSizes ==
    {n \in 1 .. (FieldOrder - 1) :
        next_power_of_two(n) = n /\ (FieldOrder - 1) % n = 0}

Domains ==
    UNION {{[size |-> n, group_gen |-> w, offset |-> g] :
                w \in {x \in Felt : HasOrder(x, n)}, g \in Felt \ {0}} :
           n \in DomainSizes}

\* Vec::resize
resize(column, new_len, value) ==
    [i \in 1 .. new_len |-> IF i <= Len(column) THEN column[i] ELSE value]

\* EvaluationDomain::fft_in_place: the coefficients are resized to the size
\* of the domain and replaced by the values at offset * group_gen^i
fft_in_place(domain, coeffs) ==
    LET padded == resize(coeffs, domain.size, FZero)
    IN  [i \in 1 .. domain.size |->
            horner_evaluate(padded,
                            FMul(domain.offset, FPow(domain.group_gen, i - 1)))]

\* an inverse transform that leaves out the factor 1 / size
ifft_in_place_unscaled(domain, evals) ==
    LET padded == resize(evals, domain.size, FZero)
    IN  [j \in 1 .. domain.size |->
            FMul(FPow(FInv(domain.offset), j - 1),
                 horner_evaluate(padded, FPow(FInv(domain.group_gen), j - 1)))]

\* EvaluationDomain::ifft_in_place: coefficient j of the interpolant is
\* offset^-j * size^-1 * sum_i evals[i] * group_gen^(-i * j)
ifft_in_place(domain, evals) ==
    LET padded == resize(evals, domain.size, FZero)
        size_inv == FInv(domain.size % FieldOrder)
    IN  [j \in 1 .. domain.size |->
            FMul(FPow(FInv(domain.offset), j - 1),
                 FMul(size_inv,
                      horner_evaluate(padded, FPow(FInv(domain.group_gen), j - 1))))]

\* Matrix::into_polynomials_cpu
into_polynomials_cpu(self, domain) ==
    [j \in 1 .. Len(self) |-> ifft_in_place(domain, self[j])]

\* Matrix::into_polynomials without the "gpu" feature
into_polynomials(self, domain) == into_polynomials_cpu(self, domain)

\* Matrix::into_evaluations_cpu
into_evaluations_cpu(self, domain) ==
    [j \in 1 .. Len(self) |-> fft_in_place(domain, self[j])]

\* Matrix::into_evaluations without the "gpu" feature
into_evaluations(self, domain) == into_evaluations_cpu(self, domain)

(***************************************************************************)
(* TraceInfo (src/src/trace.rs)                                            *)
(***************************************************************************)

\* 2^n
RECURSIVE Pow2(_)
Pow2(n) == IF n = 0 THEN 1 ELSE 2 * Pow2(n - 1)

\* usize::MAX
UsizeMax == Pow2(UsizeBits) - 1

\* a + b on usize: with overflow checks (the default of a debug build) an
\* overflow panics, without them (the default of a release build) it wraps
usize_add(a, b, overflow_checks) ==
    IF a + b > UsizeMax
    THEN IF overflow_checks THEN Panic("attempt to add with overflow")
         ELSE Ok((a + b) % Pow2(UsizeBits))
    ELSE Ok(a + b)

\* a Vec<u8> of len bytes, all equal to byte
Bytes(length, byte) == [len |-> length, byte |-> byte]

\* Vec::default()
BytesDefault == Bytes(0, 0)

\* Option::unwrap_or_default
unwrap_or_default(option) == IF option = None THEN BytesDefault ELSE option[1]

\* TraceInfo::new
TraceInfo_new(num_base_columns, num_extension_columns, trace_len, meta, overflow_checks) ==
    LET num_total_cols ==
            usize_add(num_base_columns, num_extension_columns, overflow_checks)
        meta_bytes == unwrap_or_default(meta)
    IN  IF ~num_total_cols.ok THEN num_total_cols
        ELSE IF ~(num_base_columns > 0) THEN Panic("not enough base columns")
        ELSE IF ~(num_total_cols.val <= MAX_TRACE_WIDTH) THEN Panic("too many columns")
        ELSE IF ~(meta_bytes.len <= MAX_META_BYTES) THEN Panic("too much meta data")
        ELSE IF ~(trace_len >= MIN_TRACE_LENGTH) THEN Panic("trace too small")
        ELSE Ok([num_base_columns |-> num_base_columns,
                 num_extension_columns |-> num_extension_columns,
                 trace_len |-> trace_len,
                 meta |-> meta_bytes])

\* the arguments TraceInfo::new is called with: around each limit and at the
\* ends of usize
Around(limit) == {limit - 1, limit, limit + 1}

BaseColumnCounts == {0, 1, 2} \cup Around(MAX_TRACE_WIDTH) \cup {UsizeMax - 1, UsizeMax}

ExtensionColumnCounts == {0, 1, 2} \cup Around(MAX_TRACE_WIDTH) \cup {UsizeMax}

TraceLengths == {0, 1} \cup Around(MIN_TRACE_LENGTH) \cup {UsizeMax}

Metas ==
    {None, Some(BytesDefault)}
        \cup {Some(Bytes(length, byte)) : length \in Around(MAX_META_BYTES),
                                          byte \in {0, 1}}

(***************************************************************************)
(* Queries (src/src/trace.rs).  The Merkle tree is the commitment          *)
(* primitive of the design: it commits to a number of leaves and prove     *)
(* gives the authentication path of a leaf index inside the tree, an error *)
(* outside.                                                                *)
(***************************************************************************)

\* a MerkleTree over num_leaves leaves
MerkleTree(name, num_leaves) == [name |-> name, num_leaves |-> num_leaves]

\* MerkleTree::prove: Ok(MerkleProof) of a leaf of the tree, Err otherwise
MerkleTree_prove(tree, index) ==
    IF index < tree.num_leaves
    THEN Some([tree |-> tree.name, index |-> index])
    ELSE None

\* Option::unwrap and Result::unwrap
unwrap(option) ==
    IF option = None THEN Panic("called unwrap() on a None or Err value")
    ELSE Ok(option[1])

\* a row lookup that takes a missing row for an empty one
get_row_or_empty(matrix, position) ==
    LET row == get_row(matrix, position)
    IN  IF ~row.ok THEN row
        ELSE IF row.val = None THEN Ok(<<>>) ELSE Ok(row.val[1])

\* get_row(position).unwrap(): get_row panics itself on ragged columns
get_row_unwrap(matrix, position) ==
    LET row == get_row(matrix, position)
    IN  IF ~row.ok THEN row ELSE unwrap(row.val)

\* a Queries::new that collects the composition rows first
queries_body_swapped(q, position, acc) ==
    LET composition_trace_row == get_row_unwrap(q.execution_trace_lde, position)
        execution_trace_row == get_row_unwrap(q.composition_trace_lde, position)
        base_proof == unwrap(MerkleTree_prove(q.base_commitment, position))
        extension_proof ==
            IF q.extension_commitment = None THEN Ok(None)
            ELSE unwrap(MerkleTree_prove(q.extension_commitment[1], position))
        composition_proof ==
            unwrap(MerkleTree_prove(q.composition_commitment, position))
    IN  IF ~execution_trace_row.ok THEN execution_trace_row
        ELSE IF ~base_proof.ok THEN base_proof
        ELSE IF ~extension_proof.ok THEN extension_proof
        ELSE IF ~composition_trace_row.ok THEN composition_trace_row
        ELSE IF ~composition_proof.ok THEN composition_proof
        ELSE Ok([execution_trace_values |->
                    acc.execution_trace_values \o execution_trace_row.val,
                 composition_trace_values |->
                    acc.composition_trace_values \o composition_trace_row.val,
                 base_trace_proofs |-> Append(acc.base_trace_proofs, base_proof.val),
                 extension_trace_proofs |->
                    IF q.extension_commitment = None THEN acc.extension_trace_proofs
                    ELSE Append(acc.extension_trace_proofs, extension_proof.val),
                 composition_trace_proofs |->
                    Append(acc.composition_trace_proofs, composition_proof.val)])

\* the body of `for &position in positions` of Queries::new: the five vectors
\* after the position, or the panic of the first unwrap that fails
queries_body(q, position, acc) ==
    LET execution_trace_row == get_row_unwrap(q.execution_trace_lde, position)
        base_proof == unwrap(MerkleTree_prove(q.base_commitment, position))
        extension_proof ==
            IF q.extension_commitment = None THEN Ok(None)
            ELSE unwrap(MerkleTree_prove(q.extension_commitment[1], position))
        composition_trace_row == get_row_unwrap(q.composition_trace_lde, position)
        composition_proof ==
            unwrap(MerkleTree_prove(q.composition_commitment, position))
    IN  IF ~execution_trace_row.ok THEN execution_trace_row
        ELSE IF ~base_proof.ok THEN base_proof
        ELSE IF ~extension_proof.ok THEN extension_proof
        ELSE IF ~composition_trace_row.ok THEN composition_trace_row
        ELSE IF ~composition_proof.ok THEN composition_proof
        ELSE Ok([execution_trace_values |->
                    acc.execution_trace_values \o execution_trace_row.val,
                 composition_trace_values |->
                    acc.composition_trace_values \o composition_trace_row.val,
                 base_trace_proofs |-> Append(acc.base_trace_proofs, base_proof.val),
                 extension_trace_proofs |->
                    IF q.extension_commitment = None THEN acc.extension_trace_proofs
                    ELSE Append(acc.extension_trace_proofs, extension_proof.val),
                 composition_trace_proofs |->
                    Append(acc.composition_trace_proofs, composition_proof.val)])

\* the loop of Queries::new from position i on
RECURSIVE queries_loop(_, _, _)
queries_loop(q, i, acc) ==
    IF i > Len(q.positions) THEN Ok(acc)
    ELSE LET next == queries_body(q, q.positions[i], acc)
         IN  IF ~next.ok THEN next ELSE queries_loop(q, i + 1, next.val)

\* Queries::new
Queries_new(q) ==
    queries_loop(q, 1, [execution_trace_values |-> <<>>,
                        composition_trace_values |-> <<>>,
                        base_trace_proofs |-> <<>>,
                        extension_trace_proofs |-> <<>>,
                        composition_trace_proofs |-> <<>>])

\* the LDE matrices Queries::new is called on: num_cols columns of n rows,
\* the entry of row r and column c being seed + r + 3 c in the field
LdeMatrix(n, k, seed) ==
    [c \in 1 .. k |-> [r \in 1 .. n |-> (seed + (r - 1) + 3 * (c - 1)) % FieldOrder]]

ExecutionLdes ==
    {LdeMatrix(n, k, seed) : n \in RowCounts, k \in 0 .. MaxCols, seed \in {0, 1}}
        \cup {<<<<0, 1>>, <<1>>>>}

CompositionLdes == {LdeMatrix(n, k, 2) : n \in RowCounts, k \in {1, 2}}

\* the numbers of leaves of the trees
LeafCounts == {2, 3}

QueriesArgs ==
    [execution_trace_lde : ExecutionLdes,
     composition_trace_lde : CompositionLdes,
     base_commitment : {MerkleTree("base", n) : n \in LeafCounts},
     extension_commitment :
        {None} \cup {Some(MerkleTree("extension", n)) : n \in LeafCounts},
     composition_commitment : {MerkleTree("composition", n) : n \in LeafCounts},
     positions : SeqsUpTo(RowCounts, MaxPositions)]

(***************************************************************************)
(* GPU stages.  A stage is built for n elements and its encode sends the   *)
(* buffers and a shift to a kernel; the kernels are outside the program    *)
(* and are taken by their contract.                                        *)
(***************************************************************************)

IsizeMin == 0 - Pow2(UsizeBits - 1)

IsizeMax == Pow2(UsizeBits - 1) - 1

\* a + b in isize: panics with overflow checks, wraps without
isize_add(a, b, overflow_checks) ==
    IF a + b > IsizeMax \/ a + b < IsizeMin
    THEN IF overflow_checks THEN Panic("attempt to add with overflow")
         ELSE Ok(((a + b - IsizeMin) % Pow2(UsizeBits)) + IsizeMin)
    ELSE Ok(a + b)

\* a % b of two signed integers, b > 0: the remainder has the sign of a
rem(a, b) == IF a >= 0 THEN a % b ELSE 0 - ((0 - a) % b)

\* x as u32
as_u32(x) == x % Pow2(U32Bits)

\* let shift = ((self.n as isize + shift) % (self.n as isize)) as u32
stage_shift(n, shift, overflow_checks) ==
    IF n = 0 THEN Panic("attempt to calculate the remainder with a divisor of zero")
    ELSE LET sum == isize_add(n, shift, overflow_checks)
         IN  IF ~sum.ok THEN sum ELSE Ok(as_u32(rem(sum.val, n)))

\* AddAssignStage::new
AddAssignStage_new(n) == [n |-> as_u32(n)]

\* the kernel add_assign over n elements: dst[i] += src[(i + shift) % n]
add_assign(dst, src, shift, n) ==
    [i \in 1 .. Len(dst) |->
        IF i <= n THEN FAdd(dst[i], src[((i - 1 + shift) % n) + 1]) ELSE dst[i]]

\* AddAssignStage::encode, and the kernel run when the buffer is committed
AddAssignStage_encode(self, dst, src, shift, overflow_checks) ==
    LET sent == stage_shift(self.n, shift, overflow_checks)
    IN  IF ~sent.ok THEN sent ELSE Ok(add_assign(dst, src, sent.val, self.n))

\* the loop of sum_columns_gpu over the columns j .. num_cols
RECURSIVE encode_columns(_, _, _, _, _)
encode_columns(self, adder, accumulator, j, overflow_checks) ==
    IF j > Len(self) THEN Ok(accumulator)
    ELSE LET out == AddAssignStage_encode(adder, accumulator, self[j], 0, overflow_checks)
         IN  IF ~out.ok THEN out
             ELSE encode_columns(self, adder, out.val, j + 1, overflow_checks)

\* Matrix::sum_columns_gpu
sum_columns_gpu(self, overflow_checks) ==
    LET n == num_rows(self)
    IN  IF ~n.ok THEN n
        ELSE LET accumulator == [i \in 1 .. n.val |-> FZero]
             IN  IF num_cols(self) = 0 THEN Ok(Matrix_new(<<accumulator>>))
                 ELSE LET out == encode_columns(self, AddAssignStage_new(n.val),
                                                accumulator, 1, overflow_checks)
                      IN  IF ~out.ok THEN out ELSE Ok(Matrix_new(<<out.val>>))

\* Rpo256AbsorbColumnsStage::new: the state and digest buffers hold n entries
Rpo256AbsorbColumnsStage_new(n, requires_padding) ==
    [n |-> n,
     grid_dim |-> n,
     states |-> [i \in 1 .. n |-> <<IF requires_padding THEN 1 ELSE 0, 0, 0, 0>>],
     digests |-> [i \in 1 .. n |-> <<0, 0, 0, 0>>]]

\* Rpo256AbsorbColumnsStage::encode: the assertions on col1 to col7, then the
\* dispatch of grid_dim threads over the eight columns
Rpo256AbsorbColumnsStage_encode(self, columns) ==
    LET col0 == columns[1]
    IN  IF \E j \in 2 .. 8 : self.n # Len(columns[j])
        THEN Panic("assertion failed: (left == right)")
        ELSE Ok([threads |-> self.grid_dim, buffers |-> columns])

(***************************************************************************)
(* State                                                                   *)
(***************************************************************************)

VARIABLES
    table,          \* the IoTable under test
    last,           \* the last call made on it: [op, arg, h0, p0], with h0 = height()
                    \* and p0 = num_padded_rows at entry
    challenge,      \* the table's designated challenge: None until it is drawn
    initial,        \* the initial accumulator value the extension was built from
    constraints,    \* the constraint polynomials generated last, None before
    trace,          \* the tables of a Trace, by table id
    ingested,       \* the tables of the Trace whose base matrix has been set
    target_height,  \* the common height of the Trace's tables, None until padded
    extend_call,    \* the extend call made on a table of the Trace: None before,
                    \* then [table, challenge, initial, out]
    proto,          \* the proving run over the Trace: its commitments, challenges,
                    \* query positions and Queries bundles, each None until made
    mat,            \* the Matrix under test: its columns, in order
    mret,           \* the last Matrix operation: [op, ..., out]
    fcall           \* the last call of a constructor or stage: [fn, ..., out]

vars == <<table, last, challenge, initial, constraints, trace, ingested, target_height,
          extend_call, proto, mat, mret, fcall>>

table_vars == <<table, last, challenge, initial, constraints>>

trace_vars == <<trace, ingested, target_height, extend_call, proto>>

matrix_vars == <<mat, mret>>

call_vars == <<fcall>>

Call(op, arg) ==
    [op |-> op, arg |-> arg, h0 |-> height(table), p0 |-> table.num_padded_rows]

Init ==
    /\ table = new
    /\ last = [op |-> "new", arg |-> 0, h0 |-> 0, p0 |-> 0]
    /\ challenge = None
    /\ initial = None
    /\ constraints = None
    /\ trace = [t \in TableIds |-> new]
    /\ ingested = {}
    /\ target_height = None
    /\ extend_call = None
    /\ proto = [base |-> None, challenges |-> None, extension |-> None,
                composition |-> None, committed |-> None, positions |-> None,
                queries |-> <<>>, moved |-> FALSE, aborted |-> FALSE]
    /\ mat = <<>>
    /\ mret = [op |-> "none"]
    /\ fcall = [fn |-> "none"]

(***************************************************************************)
(* The life of one table: any calls of new, set_matrix and pad on the base *)
(* matrix; then the challenge is drawn, the extension column is built and  *)
(* the constraint generators are called.                                   *)
(***************************************************************************)

New ==
    /\ challenge = None
    /\ table' = new
    /\ last' = Call("new", 0)
    /\ UNCHANGED <<challenge, initial, constraints, trace_vars, matrix_vars, call_vars>>

SetMatrix ==
    /\ challenge = None
    /\ \E m \in BaseMatrices(MaxLen) :
        /\ table' = set_matrix(table, m)
        /\ last' = Call("set_matrix", m)
    /\ UNCHANGED <<challenge, initial, constraints, trace_vars, matrix_vars, call_vars>>

Pad ==
    /\ challenge = None
    /\ \E n \in 0 .. MaxTarget :
        /\ table' = pad(table, n)
        /\ last' = Call("pad", n)
    /\ UNCHANGED <<challenge, initial, constraints, trace_vars, matrix_vars, call_vars>>

\* phase 3: the challenge is drawn once the base matrix is final
DrawChallenge ==
    /\ challenge = None
    /\ \E c \in Felt :
        /\ challenge' = Some(c)
        /\ last' = Call("challenge", c)
    /\ UNCHANGED <<table, initial, constraints, trace_vars, matrix_vars, call_vars>>

\* phase 4: the extension column is built from the challenge and an initial value
Extend ==
    /\ challenge # None
    /\ table.extended_matrix = None
    /\ \E v0 \in Felt :
        /\ table' = extend(table, challenge[1], v0)
        /\ initial' = Some(v0)
        /\ last' = Call("extend", v0)
    /\ UNCHANGED <<challenge, constraints, trace_vars, matrix_vars, call_vars>>

\* phase 5: the constraint generators are called with the challenge and a
\* claimed terminal
Constraints ==
    /\ table.extended_matrix # None
    /\ \E terminal \in Felt :
        /\ constraints' =
             Some([boundary |-> extension_boundary_constraints,
                   transition |-> extension_transition_constraints(challenge[1]),
                   terminal |->
                     extension_terminal_constraints(table, challenge[1], terminal)])
        /\ last' = Call("constraints", terminal)
    /\ UNCHANGED <<table, challenge, initial, trace_vars, matrix_vars, call_vars>>

Next == New \/ SetMatrix \/ Pad \/ DrawChallenge \/ Extend \/ Constraints

Spec == Init /\ [][Next]_vars

(***************************************************************************)
(* The padding protocol of a Trace (phases 1 and 2)                        *)
(***************************************************************************)

\* phase 1: set_matrix once per table
Ingest ==
    /\ target_height = None
    /\ \E t \in TableIds \ ingested :
        \E m \in BaseMatrices(MaxTraceLen) :
            /\ trace' = [trace EXCEPT ![t] = set_matrix(@, m)]
            /\ ingested' = ingested \cup {t}
    /\ UNCHANGED <<target_height, extend_call, proto, table_vars, matrix_vars, call_vars>>

\* phase 2: the target height is computed and every table is padded to it
PadTables ==
    /\ target_height = None
    /\ ingested = TableIds
    /\ LET target == target_height_of(trace)
       IN  /\ target_height' = Some(target)
           /\ trace' = pad_tables(trace, target)
    /\ UNCHANGED <<ingested, extend_call, proto, table_vars, matrix_vars, call_vars>>

\* phase 4: extend is called on a table of the padded Trace; a call that does
\* not return normally aborts the run
TableExtend ==
    /\ target_height # None
    /\ extend_call = None
    /\ \E t \in TableIds, c \in Felt, v0 \in Felt :
        LET out == IF t = "input"
                   THEN InputTable_extend(trace[t], c, v0)
                   ELSE OutputTable_extend(trace[t], c, v0)
        IN  /\ extend_call' = Some([table |-> t, challenge |-> c, initial |-> v0,
                                    out |-> [ok |-> out.ok]])
            /\ trace' = IF out.ok THEN [trace EXCEPT ![t] = out.val] ELSE trace
    /\ UNCHANGED <<ingested, target_height, proto, table_vars, matrix_vars, call_vars>>

NextTrace == Ingest \/ PadTables \/ TableExtend

SpecTrace == Init /\ [][NextTrace]_vars

(***************************************************************************)
(* A Matrix: it is built by one of new, from_rows, from_arrays and join,   *)
(* columns may be appended, and the accessors are called on it.  The       *)
(* accessors take &self, so each is applied to the matrix as built; a call *)
(* that panics ends the run.                                               *)
(***************************************************************************)

BuildOps == {"new", "from_rows", "from_arrays", "join", "append"}

Built == mret.op \in BuildOps /\ mret.out.ok

\* the accessors read the matrix and leave everything but mret alone
Access(op, arg, out) ==
    /\ Built
    /\ mret' = [op |-> op, arg |-> arg, out |-> out]
    /\ UNCHANGED <<mat, table_vars, trace_vars, call_vars>>

MatrixNew ==
    /\ mret.op = "none"
    /\ \E cols \in Matrices(MaxCols) :
        /\ mat' = Matrix_new(cols)
        /\ mret' = [op |-> "new", out |-> [ok |-> TRUE]]
    /\ UNCHANGED <<table_vars, trace_vars, call_vars>>

\* the rows given to from_rows may differ in length
FromRows ==
    /\ mret.op = "none"
    /\ \E input \in SeqsOfLen(SeqsUpTo(MatValues, MaxCols), RowCounts),
          debug_assertions \in BOOLEAN :
        LET out == from_rows(input, debug_assertions)
        IN  /\ mat' = IF out.ok THEN out.val ELSE mat
            /\ mret' = [op |-> "from_rows", input |-> input,
                        debug_assertions |-> debug_assertions,
                        out |-> [ok |-> out.ok]]
    /\ UNCHANGED <<table_vars, trace_vars, call_vars>>

FromArrays ==
    /\ mret.op = "none"
    /\ \E NUM_COLS \in 0 .. MaxCols :
        \E input \in SeqsOfLen([1 .. NUM_COLS -> MatValues], RowCounts) :
            LET out == from_arrays(input, NUM_COLS)
            IN  /\ mat' = out.val
                /\ mret' = [op |-> "from_arrays", input |-> input,
                            NUM_COLS |-> NUM_COLS, out |-> [ok |-> out.ok]]
    /\ UNCHANGED <<table_vars, trace_vars, call_vars>>

\* join of a list of up to two matrices
Join ==
    /\ mret.op = "none"
    /\ \E matrices \in
            {<<>>}
              \cup {<<a>> : a \in Matrices(MaxCols)}
              \cup UNION {{<<a, b>> : b \in Matrices(MaxCols - Len(a))} :
                            a \in Matrices(MaxCols)} :
        /\ mat' = join(matrices)
        /\ mret' = [op |-> "join", matrices |-> matrices, out |-> [ok |-> TRUE]]
    /\ UNCHANGED <<table_vars, trace_vars, call_vars>>

\* columns are appended to a matrix made by new
MatrixAppend ==
    /\ mret.op = "new"
    /\ \E other \in Matrices(MaxCols - Len(mat)) :
        /\ mat' = append(mat, other)
        /\ mret' = [op |-> "append", self |-> mat, other |-> other,
                    out |-> [ok |-> TRUE]]
    /\ UNCHANGED <<table_vars, trace_vars, call_vars>>

NumRows == Access("num_rows", 0, num_rows(mat))

NumCols == Access("num_cols", 0, Ok(num_cols(mat)))

IsEmpty == Access("is_empty", 0, is_empty(mat))

GetRow == \E row \in RowCounts : Access("get_row", row, get_row(mat, row))

\* read_row into a buffer of num_cols elements, as hash_rows calls it
ReadRow ==
    \E row_idx \in RowCounts :
        Access("read_row", row_idx,
               read_row(mat, row_idx, [j \in 1 .. num_cols(mat) |-> FZero]))

Rows == Access("rows", 0, rows(mat))

HashRows == \E cfg \in ChunkConfigs : Access("hash_rows", cfg, hash_rows(mat, cfg))

SumColumns ==
    \E cfg \in ChunkConfigs : Access("sum_columns", cfg, sum_columns(mat, cfg))

ColumnDegrees == Access("column_degrees", 0, Ok(column_degrees(mat)))

EvaluateAt == \E x \in Felt : Access("evaluate_at", x, Ok(evaluate_at(mat, x)))

NextMatrix ==
    \/ MatrixNew \/ FromRows \/ FromArrays \/ Join \/ MatrixAppend
    \/ NumRows \/ NumCols \/ IsEmpty \/ GetRow \/ ReadRow \/ Rows
    \/ HashRows \/ SumColumns \/ ColumnDegrees \/ EvaluateAt

SpecMatrix == Init /\ [][NextMatrix]_vars

(***************************************************************************)
(* The transforms: a matrix made by new is evaluated over a domain, and    *)
(* the evaluations are interpolated over a domain.                         *)
(***************************************************************************)

IntoEvaluations ==
    /\ mret.op = "new"
    /\ \E domain \in Domains :
        /\ mat' = into_evaluations(mat, domain)
        /\ mret' = [op |-> "into_evaluations", self |-> mat, domain |-> domain,
                    out |-> [ok |-> TRUE]]
    /\ UNCHANGED <<table_vars, trace_vars, call_vars>>

IntoPolynomials ==
    /\ mret.op = "into_evaluations"
    /\ \E domain \in Domains :
        /\ mat' = into_polynomials(mat, domain)
        /\ mret' = [op |-> "into_polynomials", self |-> mret.self,
                    evaluated_over |-> mret.domain, domain |-> domain,
                    out |-> [ok |-> TRUE]]
    /\ UNCHANGED <<table_vars, trace_vars, call_vars>>

NextTransform == MatrixNew \/ IntoEvaluations \/ IntoPolynomials

SpecTransform == Init /\ [][NextTransform]_vars

(***************************************************************************)
(* TraceInfo::new is called once, with any arguments, in either build.     *)
(***************************************************************************)

TraceInfoNew ==
    /\ fcall.fn = "none"
    /\ \E num_base_columns \in BaseColumnCounts,
          num_extension_columns \in ExtensionColumnCounts,
          trace_len \in TraceLengths,
          meta \in Metas,
          overflow_checks \in BOOLEAN :
        fcall' = [fn |-> "TraceInfo::new",
                 num_base_columns |-> num_base_columns,
                 num_extension_columns |-> num_extension_columns,
                 trace_len |-> trace_len,
                 meta |-> meta,
                 overflow_checks |-> overflow_checks,
                 out |-> TraceInfo_new(num_base_columns, num_extension_columns,
                                       trace_len, meta, overflow_checks)]
    /\ UNCHANGED <<table_vars, trace_vars, matrix_vars>>

NextTraceInfo == TraceInfoNew

SpecTraceInfo == Init /\ [][NextTraceInfo]_vars

(***************************************************************************)
(* Queries::new is called once, on any matrices, trees and positions.      *)
(***************************************************************************)

QueriesNew ==
    /\ fcall.fn = "none"
    /\ \E q \in QueriesArgs :
        fcall' = [fn |-> "Queries::new", args |-> q, out |-> Queries_new(q)]
    /\ UNCHANGED <<table_vars, trace_vars, matrix_vars>>

NextQueries == QueriesNew

SpecQueries == Init /\ [][NextQueries]_vars

(***************************************************************************)
(* The constraint generators of the two IO tables, called with the shared  *)
(* challenges and terminals.                                               *)
(***************************************************************************)

\* slices of the given lengths: runs of consecutive field elements, and
\* slices that are zero but at one position
Slices(lengths) ==
    {[i \in 1 .. n |-> (seed + i) % FieldOrder] : n \in lengths, seed \in Felt}
        \cup {[i \in 1 .. n |-> IF i = k THEN 2 ELSE 0] : n \in lengths, k \in 8 .. 11}

ChallengeSlices == Slices({0, 10, 11, 12})

TerminalSlices == Slices({0, 4, 5, 6})

\* tables with 0, 1 and 2 padded rows
GeneratorTables == {pad(set_matrix(new, m), n) : m \in BaseMatrices(1), n \in {0, 2}}

IoConstraints ==
    /\ fcall.fn = "none"
    /\ \E t \in TableIds, self \in GeneratorTables,
          challenges \in ChallengeSlices, terminals \in TerminalSlices :
        fcall' = [fn |-> "constraints", table |-> t, self |-> self,
                 challenges |-> challenges, terminals |-> terminals,
                 transition |->
                    IF t = "input"
                    THEN InputTable_extension_transition_constraints(challenges)
                    ELSE OutputTable_extension_transition_constraints(challenges),
                 terminal |->
                    IF t = "input"
                    THEN InputTable_extension_terminal_constraints(
                             self, challenges, terminals)
                    ELSE OutputTable_extension_terminal_constraints(
                             self, challenges, terminals)]
    /\ UNCHANGED <<table_vars, trace_vars, matrix_vars>>

NextGenerators == IoConstraints

SpecGenerators == Init /\ [][NextGenerators]_vars

(***************************************************************************)
(* encode of the four stages that take a signed shift: MulIntoStage,       *)
(* MulAssignStage, AddAssignStage and AddIntoStage compute the shift they  *)
(* send to the kernel by the same statement.                               *)
(***************************************************************************)

ShiftStages == {"MulIntoStage", "MulAssignStage", "AddAssignStage", "AddIntoStage"}

\* the n a stage is built with: small lengths, the largest below half the
\* range of a u32, and lengths that do not fit a u32
StageLengths == {0, 1, 2, 3, 5, Pow2(U32Bits - 1) - 1, Pow2(U32Bits), Pow2(U32Bits) + 3}

\* the shifts handed to encode: around zero and at both ends of isize
Shifts == (0 - 11) .. 11 \cup {IsizeMin, IsizeMin + 1, IsizeMax - 1, IsizeMax}

EncodeShift ==
    /\ fcall.fn = "none"
    /\ \E stage \in ShiftStages, n \in StageLengths, shift \in Shifts,
          overflow_checks \in BOOLEAN :
        fcall' = [fn |-> "encode", stage |-> stage, n |-> n, shift |-> shift,
                 overflow_checks |-> overflow_checks,
                 sent |-> stage_shift(AddAssignStage_new(n).n, shift, overflow_checks)]
    /\ UNCHANGED <<table_vars, trace_vars, matrix_vars>>

NextStageShift == EncodeShift

SpecStageShift == Init /\ [][NextStageShift]_vars

(***************************************************************************)
(* Rpo256AbsorbColumnsStage: a stage is built for n rows and its encode is *)
(* handed eight columns.                                                   *)
(***************************************************************************)

\* the lengths of the stage and of the columns handed to it
AbsorbLengths == 0 .. 2

AbsorbColumns ==
    /\ fcall.fn = "none"
    /\ \E n \in AbsorbLengths, requires_padding \in BOOLEAN,
          lens \in [1 .. 8 -> AbsorbLengths] :
        LET columns == [j \in 1 .. 8 |-> [i \in 1 .. lens[j] |-> FZero]]
            stage == Rpo256AbsorbColumnsStage_new(n, requires_padding)
        IN  fcall' = [fn |-> "Rpo256AbsorbColumnsStage::encode", n |-> n,
                     columns |-> columns,
                     out |-> Rpo256AbsorbColumnsStage_encode(stage, columns)]
    /\ UNCHANGED <<table_vars, trace_vars, matrix_vars>>

NextAbsorb == AbsorbColumns

SpecAbsorb == Init /\ [][NextAbsorb]_vars

(***************************************************************************)
(* The two builds of sum_columns over one matrix: without the "gpu"        *)
(* feature the call is sum_columns_cpu, with it sum_columns_gpu.           *)
(***************************************************************************)

SumColumnsBackends ==
    /\ fcall.fn = "none"
    /\ \E self \in Matrices(MaxCols), cfg \in ChunkConfigs, overflow_checks \in BOOLEAN :
        fcall' = [fn |-> "sum_columns", self |-> self, cfg |-> cfg,
                 overflow_checks |-> overflow_checks,
                 cpu |-> sum_columns_cpu(self, cfg),
                 gpu |-> sum_columns_gpu(self, overflow_checks)]
    /\ UNCHANGED <<table_vars, trace_vars, matrix_vars>>

NextBackends == SumColumnsBackends

SpecBackends == Init /\ [][NextBackends]_vars

(***************************************************************************)
(* The proving run over a Trace (phases 1 to 6).  Phases 1 and 2 are       *)
(* Ingest and PadTables above; every later phase is one step of the        *)
(* prover, made once and only when what it reads exists.  A call that      *)
(* panics aborts the run.                                                  *)
(***************************************************************************)

\* extend(challenges, initials) on every table; the first panic, if any
extend_tables(tables, challenges, initials) ==
    LET outs == [t \in TableIds |->
                    IF t = "input"
                    THEN InputTable_extend(tables[t], challenges, initials)
                    ELSE OutputTable_extend(tables[t], challenges, initials)]
    IN  IF \E t \in TableIds : ~outs[t].ok
        THEN outs[CHOOSE t \in TableIds : ~outs[t].ok]
        ELSE Ok([t \in TableIds |-> outs[t].val])

\* phase 2: the base matrices of the padded tables are committed
CommitBase ==
    /\ ~proto.aborted
    /\ target_height # None
    /\ proto.base = None
    /\ proto' = [proto EXCEPT !.base = Some(MerkleTree("base", target_height[1]))]
    /\ UNCHANGED <<trace, ingested, target_height, extend_call,
                   table_vars, matrix_vars, call_vars>>

\* phase 3: the challenges are drawn from the transcript seeded by the base
\* commitment
DeriveChallenges ==
    /\ ~proto.aborted
    /\ proto.base # None
    /\ proto.challenges = None
    /\ \E c \in Felt : proto' = [proto EXCEPT !.challenges = Some(c)]
    /\ UNCHANGED <<trace, ingested, target_height, extend_call,
                   table_vars, matrix_vars, call_vars>>

\* phase 4: a trace without extension columns has no extension commitment;
\* otherwise extend is called on the tables and their extension matrices are
\* committed
ExtendAndCommit ==
    /\ ~proto.aborted
    /\ proto.challenges # None
    /\ proto.extension = None
    /\ \E has_extension \in BOOLEAN, v0 \in Felt :
        IF ~has_extension
        THEN /\ proto' = [proto EXCEPT !.extension = Some(None)]
             /\ UNCHANGED <<trace, extend_call>>
        ELSE LET out == extend_tables(trace, proto.challenges[1], v0)
             IN  /\ extend_call' = Some([table |-> "all",
                                         challenge |-> proto.challenges[1],
                                         initial |-> v0, out |-> [ok |-> out.ok]])
                 /\ trace' = IF out.ok THEN out.val ELSE trace
                 /\ proto' = IF out.ok
                             THEN [proto EXCEPT !.extension =
                                     Some(Some(MerkleTree("extension", target_height[1])))]
                             ELSE [proto EXCEPT !.aborted = TRUE]
    /\ UNCHANGED <<ingested, target_height, table_vars, matrix_vars, call_vars>>

\* phase 5: the composition polynomial is committed; the commitment phase is
\* complete
CommitComposition ==
    /\ ~proto.aborted
    /\ proto.extension # None
    /\ proto.composition = None
    /\ proto' = [proto EXCEPT
                    !.composition = Some(MerkleTree("composition", target_height[1])),
                    !.committed = Some(trace)]
    /\ UNCHANGED <<trace, ingested, target_height, extend_call,
                   table_vars, matrix_vars, call_vars>>

\* phase 6: the query positions are drawn from the transcript
DerivePositions ==
    /\ ~proto.aborted
    /\ proto.composition # None
    /\ proto.positions = None
    /\ \E positions \in SeqsUpTo(0 .. (target_height[1] - 1), MaxPositions) :
        proto' = [proto EXCEPT !.positions = Some(positions)]
    /\ UNCHANGED <<trace, ingested, target_height, extend_call,
                   table_vars, matrix_vars, call_vars>>

\* phase 6: Queries::new takes the three commitments by value: they are moved
\* into the call and the prover holds them no longer
BuildQueries ==
    /\ ~proto.aborted
    /\ proto.positions # None
    /\ ~proto.moved
    /\ proto' = [proto EXCEPT
                    !.queries = Append(@, [base_commitment |-> proto.base[1],
                                           extension_commitment |-> proto.extension[1],
                                           composition_commitment |-> proto.composition[1],
                                           positions |-> proto.positions[1]]),
                    !.moved = TRUE]
    /\ UNCHANGED <<trace, ingested, target_height, extend_call,
                   table_vars, matrix_vars, call_vars>>

NextProtocol ==
    \/ Ingest
    \/ PadTables
    \/ CommitBase
    \/ DeriveChallenges
    \/ ExtendAndCommit
    \/ CommitComposition
    \/ DerivePositions
    \/ BuildQueries

SpecProtocol == Init /\ [][NextProtocol]_vars

(***************************************************************************)
(* Claims                                                                  *)
(***************************************************************************)

Max(a, b) == IF a >= b THEN a ELSE b

\* C1: after any sequence of new, set_matrix and pad calls the padding counter
\* never exceeds the number of stored rows, so len() does not underflow, and
\* height() = len() + num_padded_rows.
C1_HeightIsLenPlusPadding ==
    /\ table.num_padded_rows <= height(table)
    /\ len(table) # Underflow
    /\ height(table) = len(table) + table.num_padded_rows

\* a table holding real rows and padded rows, reached by a pad call
C1_Witness ==
    /\ last.op = "pad"
    /\ table.num_padded_rows > 0
    /\ len(table) # Underflow
    /\ len(table) > 0

\* C2: a pad(target) step on a table of height h appends exactly
\* max(0, target - h) rows, all zero, adds that number to num_padded_rows,
\* keeps the rows that were there and len(), and ends with
\* height() = max(h, target).
C2_PadAppendsZeroRows ==
    [][last'.op = "pad" =>
        LET h == height(table)
            target == last'.arg
            added == Max(0, target - h)
        IN  /\ Len(table'.matrix) = h + added
            /\ SubSeq(table'.matrix, 1, h) = table.matrix
            /\ \A i \in (h + 1) .. (h + added) : table'.matrix[i] = FZero
            /\ table'.num_padded_rows = table.num_padded_rows + added
            /\ len(table') = len(table)
            /\ height(table') = Max(h, target)]_vars

\* pad has appended at least two rows to a table that held real rows
C2_Witness ==
    /\ last.op = "pad"
    /\ last.h0 > 0
    /\ last.arg >= last.h0 + 2
    /\ height(table) = last.arg

\* C3: pad is idempotent: for every target t, pad(t) after pad(t) gives the
\* table a single pad(t) gives, and pad(t) on a table of height >= t returns
\* the table unchanged.
C3_PadIdempotent ==
    \A t \in 0 .. MaxTarget :
        /\ pad(pad(table, t), t) = pad(table, t)
        /\ height(table) >= t => pad(table, t) = table

\* pad(t) called on a table that an earlier pad had already brought to height t
C3_Witness ==
    /\ last.op = "pad"
    /\ last.h0 = last.arg
    /\ last.p0 > 0
    /\ table.num_padded_rows = last.p0
    /\ height(table) = last.h0

\* C5: right after set_matrix(m) the base matrix is m, num_padded_rows = 0 and
\* len() = height() = the number of rows of m, whatever the table held before.
C5_SetMatrixResetsPadding ==
    last.op = "set_matrix" =>
        /\ table.matrix = last.arg
        /\ table.num_padded_rows = 0
        /\ len(table) = Len(last.arg)
        /\ height(table) = Len(last.arg)

\* set_matrix has replaced a padded table by a shorter, non-empty matrix
C5_Witness ==
    /\ last.op = "set_matrix"
    /\ last.p0 > 0
    /\ Len(last.arg) > 0
    /\ Len(last.arg) < last.p0
    /\ table.matrix = last.arg

\* C4: once the Trace has computed target_height and padded every table to
\* it, all tables have the same height, equal to target_height, a power of
\* two that is >= the floor and >= every table's real length.
C4_UniformPowerOfTwoHeight ==
    target_height # None =>
        LET target == target_height[1]
        IN  /\ \A t \in TableIds : height(trace[t]) = target
            /\ \A t \in TableIds : len(trace[t]) <= target
            /\ \E e \in 0 .. target : target = 2 ^ e
            /\ target >= TraceFloor
            /\ \A q \in 1 .. (target - 1) :
                 (\E e \in 0 .. q : q = 2 ^ e) =>
                    \/ q < TraceFloor
                    \/ \E t \in TableIds : q < len(trace[t])

\* the Trace was padded with one table longer than the floor and the other
\* table empty
C4_Witness ==
    /\ target_height # None
    /\ len(trace["input"]) > TraceFloor
    /\ len(trace["output"]) = 0
    /\ trace["output"].num_padded_rows = target_height[1]

(***************************************************************************)
(* The extension column of the table under test                            *)
(***************************************************************************)

Extended == table.extended_matrix # None

ExtRows == table.extended_matrix[1]

\* the evaluation column at row i (1-based)
EvaluationAt(i) == ExtRows[i][EVALUATION + 1]

\* the evaluation at the last real row: the terminal an honest prover claims
TrueTerminal == EvaluationAt(len(table))

\* the terminal constraint without the padding offset: evaluation - terminal
naive_terminal_constraints(terminal) ==
    LET variables == Variables(2)
    IN  <<PolySubConst(variables[EVALUATION + 1], terminal)>>

\* C6: with at least one real row and the extension built by the running
\* evaluation, the terminal constraint generated for the evaluation at the
\* last real row vanishes at the final row of the padded extension matrix.
C6_TerminalVanishesAtFinalRow ==
    (/\ Extended
     /\ constraints # None
     /\ last.op = "constraints"
     /\ len(table) >= 1
     /\ last.arg = TrueTerminal)
    => Evaluate(constraints[1].terminal[1], ExtRows[height(table)]) = 0

\* the terminal constraint was generated for the true terminal of a table with
\* real rows and at least two padded rows, where challenge^num_padded_rows # 1
C6_Witness ==
    /\ Extended
    /\ constraints # None
    /\ last.op = "constraints"
    /\ len(table) >= 2
    /\ table.num_padded_rows >= 2
    /\ last.arg = TrueTerminal
    /\ TrueTerminal # 0
    /\ FPow(challenge[1], table.num_padded_rows) # 1

\* C7 as claimed: on every table padded by k > 0 rows the constraint without
\* the offset does not vanish at the final row of the extension matrix.
C7_NaiveNeverVanishes ==
    (Extended /\ len(table) >= 1 /\ table.num_padded_rows > 0)
    => Evaluate(naive_terminal_constraints(TrueTerminal)[1],
                ExtRows[height(table)]) # 0

\* C7 as amended: on a table padded by k > 0 rows the constraint without the
\* offset vanishes at the final row exactly when terminal * (c^k - 1) = 0,
\* that is when the terminal is zero or c^k = 1; otherwise it does not vanish.
C7_NaiveVanishesIffTrivialOffset ==
    (Extended /\ len(table) >= 1 /\ table.num_padded_rows > 0)
    => LET c == challenge[1]
           k == table.num_padded_rows
           naive == naive_terminal_constraints(TrueTerminal)[1]
       IN  /\ (Evaluate(naive, ExtRows[height(table)]) = 0)
                <=> (TrueTerminal = 0 \/ FPow(c, k) = 1)
           /\ Evaluate(naive, ExtRows[height(table)])
                = FMul(TrueTerminal, FSub(FPow(c, k), 1))

\* a padded, extended table on which the constraint without the offset fails:
\* non-zero terminal and c^k # 1
C7_Witness ==
    /\ Extended
    /\ len(table) >= 1
    /\ table.num_padded_rows > 0
    /\ TrueTerminal # 0
    /\ FPow(challenge[1], table.num_padded_rows) # 1
    /\ Evaluate(naive_terminal_constraints(TrueTerminal)[1],
                ExtRows[height(table)]) # 0

\* C8 as claimed: the terminal constraint generated for the true terminal
\* vanishes at the last real row and at no other row.
C8_VanishesOnlyAtLastRealRow ==
    (/\ Extended
     /\ constraints # None
     /\ last.op = "constraints"
     /\ len(table) >= 1
     /\ last.arg = TrueTerminal)
    => \A r \in 1 .. height(table) :
          (Evaluate(constraints[1].terminal[1], ExtRows[r]) = 0) <=> (r = len(table))

\* C8 as amended: at every row r the terminal constraint is evaluation_r minus
\* claimed_terminal * c^num_padded_rows; generated for the true terminal it
\* vanishes at the last real row exactly when terminal * (c^k - 1) = 0 (so
\* always when there is no padding), the row it is built to vanish at being
\* the final row of the padded table.
C8_TerminalComparesWithOffset ==
    (Extended /\ constraints # None /\ last.op = "constraints")
    => LET c == challenge[1]
           k == table.num_padded_rows
           poly == constraints[1].terminal[1]
       IN  /\ \A r \in 1 .. height(table) :
                 Evaluate(poly, ExtRows[r])
                   = FSub(EvaluationAt(r), FMul(last.arg, FPow(c, k)))
           /\ (len(table) >= 1 /\ last.arg = TrueTerminal) =>
                 /\ (Evaluate(poly, ExtRows[len(table)]) = 0)
                       <=> (TrueTerminal = 0 \/ FPow(c, k) = 1)
                 /\ Evaluate(poly, ExtRows[height(table)]) = 0

\* five real rows padded to height eight, terminal constraint generated for the
\* true terminal, which it does not vanish on at the fifth row
C8_Witness ==
    /\ Extended
    /\ constraints # None
    /\ last.op = "constraints"
    /\ len(table) = 5
    /\ height(table) = 8
    /\ last.arg = TrueTerminal
    /\ Evaluate(constraints[1].terminal[1], ExtRows[5]) # 0
    /\ Evaluate(constraints[1].terminal[1], ExtRows[8]) = 0

\* the recurrence on the row pair (value, evaluation, value_next, evaluation_next)
Recurrence(c, point) == point[4] = FAdd(FMul(point[2], c), point[3])

\* C9: the transition constraint vanishes on every consecutive row pair of an
\* extension column built by the recurrence, and on no row pair that violates
\* the recurrence.
C9_TransitionMatchesRecurrence ==
    (Extended /\ constraints # None)
    => LET poly == constraints[1].transition[1]
       IN  /\ \A i \in 1 .. (height(table) - 1) :
                 Evaluate(poly, ExtRows[i] \o ExtRows[i + 1]) = 0
           /\ \A point \in [1 .. 4 -> Felt] :
                 ~Recurrence(challenge[1], point) => Evaluate(poly, point) # 0

\* C10: row i (0-based) of an extension column built by the running evaluation
\* from v0 with challenge c holds v0 * c^i + sum_{j=1..i} value_j * c^(i-j),
\* and every padded row holds the previous row's evaluation times c.
RECURSIVE HornerSum(_, _, _, _)
HornerSum(matrix, c, i, j) ==
    IF j > i THEN 0
    ELSE FAdd(FMul(matrix[j + 1], FPow(c, i - j)), HornerSum(matrix, c, i, j + 1))

C10_HornerForm ==
    Extended =>
        LET c == challenge[1]
            v0 == initial[1]
        IN  /\ \A i \in 0 .. (height(table) - 1) :
                 EvaluationAt(i + 1)
                   = FAdd(FMul(v0, FPow(c, i)), HornerSum(table.matrix, c, i, 1))
            /\ \A i \in 1 .. (height(table) - 1) :
                 i >= len(table) => EvaluationAt(i + 1) = FMul(EvaluationAt(i), c)

\* an extension column of ten rows (i = 0..9): five real rows, not all zero,
\* then five padded rows, challenge not 0 or 1
C10_Witness ==
    /\ Extended
    /\ height(table) = 10
    /\ len(table) = 5
    /\ \E j \in 2 .. 5 : table.matrix[j] # 0
    /\ challenge[1] \notin {0, 1}
    /\ initial[1] # 0
    /\ EvaluationAt(10) # 0

\* C11: the boundary constraint vanishes at a point (value_0, evaluation_0)
\* exactly when evaluation_0 = value_0; on row 0 of an extension column started
\* from the initial value v0 it vanishes exactly when v0 is the first base value.
C11_BoundaryVanishesIffEqual ==
    constraints # None =>
        LET poly == constraints[1].boundary[1]
        IN  /\ \A point \in [1 .. 2 -> Felt] :
                 (Evaluate(poly, point) = 0)
                    <=> (point[EVALUATION + 1] = point[VALUE + 1])
            /\ height(table) >= 1 =>
                 /\ EvaluationAt(1) = initial[1]
                 /\ (Evaluate(poly, ExtRows[1]) = 0) <=> (initial[1] = table.matrix[1])

\* the boundary constraint generated for a column started from an initial value
\* other than the first base value, on whose row 0 it does not vanish
C11_Witness ==
    /\ constraints # None
    /\ last.op = "constraints"
    /\ height(table) >= 2
    /\ initial[1] # table.matrix[1]
    /\ initial[1] # 0
    /\ Evaluate(constraints[1].boundary[1], ExtRows[1]) # 0

\* C12: an extend call on an InputTable or OutputTable whose base matrix has
\* been set and padded returns normally and leaves the table with the extension
\* matrix built row by row from the initial value with the table's challenge,
\* of the same height as the base matrix.
C12_ExtendCompletes ==
    extend_call # None =>
        LET call == extend_call[1]
            self == trace[call.table]
        IN  /\ call.out.ok
            /\ self.extended_matrix # None
            /\ Len(self.extended_matrix[1]) = height(self)
            /\ self.extended_matrix
                 = extend([self EXCEPT !.extended_matrix = None],
                          call.challenge, call.initial).extended_matrix

\* a matrix whose columns all have n entries
Uniform(self, n) == \A j \in 1 .. Len(self) : Len(self[j]) = n

\* C13: for a matrix M of uniform column length n and a domain D of size
\* >= n, every column of M.into_evaluations(D).into_polynomials(D) has |D|
\* entries: the n entries of M's column, then zeros.
C13_RoundTripZeroPads ==
    (mret.op = "into_polynomials" /\ mret.domain = mret.evaluated_over) =>
        \A n \in RowCounts :
            (Uniform(mret.self, n) /\ mret.domain.size >= n) =>
                /\ Len(mat) = Len(mret.self)
                /\ \A j \in 1 .. Len(mat) :
                      /\ Len(mat[j]) = mret.domain.size
                      /\ SubSeq(mat[j], 1, n) = mret.self[j]
                      /\ \A i \in (n + 1) .. mret.domain.size : mat[j][i] = FZero

\* two non-zero columns of three entries taken through a coset domain of four
\* points and back
C13_Witness ==
    /\ mret.op = "into_polynomials"
    /\ mret.domain = mret.evaluated_over
    /\ mret.domain.size = 4
    /\ mret.domain.offset # 1
    /\ Len(mret.self) = 2
    /\ Uniform(mret.self, 3)
    /\ mret.self[1][3] # FZero
    /\ mret.self[2][2] # FZero
    /\ mret.self[1] # mret.self[2]
    /\ Len(mat[1]) = 4

\* the matrix with rows i and j (1-based) exchanged
SwapRows(self, i, j) ==
    [c \in 1 .. Len(self) |->
        [k \in 1 .. Len(self[c]) |->
            IF k = i THEN self[c][j] ELSE IF k = j THEN self[c][i] ELSE self[c][k]]]

\* the digests that differ between two digest vectors of n entries
Changed(h1, h2, n) == {k \in 1 .. n : h1[k] # h2[k]}

\* C14 as claimed: hash_rows returns the same digests on the same matrix, and
\* swapping rows i # j changes exactly digests i and j.
C14_SwapChangesExactlyTwo ==
    (mret.op = "hash_rows" /\ mret.out.ok) =>
        LET n == num_rows(mat).val
            digests == mret.out.val
        IN  /\ hash_rows(mat, mret.arg).val = digests
            /\ \A i, j \in 1 .. n :
                 i # j =>
                    Changed(digests, hash_rows(SwapRows(mat, i, j), mret.arg).val, n)
                        = {i, j}

\* C14 as amended: hash_rows returns the same digests on the same matrix in
\* every build that returns; swapping rows i # j exchanges digests i and j and
\* leaves every other digest alone, so the digests that change are i and j
\* when the two rows differ and none when the two rows are equal.
C14_SwapExchangesDigests ==
    (mret.op = "hash_rows" /\ mret.out.ok) =>
        LET n == num_rows(mat).val
            digests == mret.out.val
        IN  /\ Len(digests) = n
            /\ \A cfg \in ChunkConfigs :
                 hash_rows(mat, cfg).ok => hash_rows(mat, cfg).val = digests
            /\ \A i, j \in 1 .. n :
                 i # j =>
                    LET swapped == hash_rows(SwapRows(mat, i, j), mret.arg).val
                        differ == get_row(mat, i - 1) # get_row(mat, j - 1)
                    IN  /\ swapped[i] = digests[j]
                        /\ swapped[j] = digests[i]
                        /\ \A k \in (1 .. n) \ {i, j} : swapped[k] = digests[k]
                        /\ Changed(digests, swapped, n)
                             = IF differ THEN {i, j} ELSE {}

\* hash_rows has returned on a matrix of two columns and three rows whose
\* first two rows are equal and whose third row differs from them in the
\* second column only
C14_Witness ==
    /\ mret.op = "hash_rows"
    /\ mret.out.ok
    /\ num_cols(mat) = 2
    /\ num_rows(mat) = Ok(3)
    /\ get_row(mat, 0) = get_row(mat, 1)
    /\ mat[1][3] = mat[1][1]
    /\ mat[2][3] # mat[2][1]
    /\ mret.out.val[1] = mret.out.val[2]
    /\ mret.out.val[3] # mret.out.val[1]

\* the field sum of entry i (1-based) of columns j .. Len(self)
RECURSIVE EntrySum(_, _, _)
EntrySum(self, i, j) ==
    IF j > Len(self) THEN 0
    ELSE FAdd(self[j][i], EntrySum(self, i, j + 1))

\* C15: sum_columns on a matrix of k columns of length n returns a single
\* column of length n whose entry i is the field sum of entry i of the k
\* columns; for k = 0 the column is all zero.
C15_SumColumnsIsColumnSum ==
    (mret.op = "sum_columns" /\ num_rows(mat).ok) =>
        LET n == num_rows(mat).val
        IN  /\ mret.out.ok
            /\ mret.out.val = <<[i \in 1 .. n |-> EntrySum(mat, i, 1)]>>

\* the width of row-major input: the width of its first row, 0 without rows
Width(input) == IF input = <<>> THEN 0 ELSE Len(input[1])

SameWidth(input) == \A i \in 1 .. Len(input) : Len(input[i]) = Width(input)

FromRowsOrArrays == mret.op \in {"from_rows", "from_arrays"}

\* the width of the rows given to from_rows or from_arrays::<NUM_COLS>
InputWidth == IF mret.op = "from_arrays" THEN mret.NUM_COLS ELSE Width(mret.input)

\* the matrix is the transpose of the input, of width w, and rows() gives the
\* input back
Transposed(self, input, w) ==
    /\ num_cols(self) = w
    /\ num_rows(self) = Ok(Len(input))
    /\ \A j \in 1 .. w : \A i \in 1 .. Len(input) : self[j][i] = input[i][j]
    /\ rows(self) = Ok(input)

\* C16 as claimed: from_rows and from_arrays return the transpose of their
\* input, whose rows() are the input rows, also for rows of zero width and for
\* rows of differing lengths.
C16_TransposeOfAnyRows ==
    FromRowsOrArrays => (mret.out.ok /\ Transposed(mat, mret.input, InputWidth))

\* C16 as amended: for rows of one common width w >= 1 (and for no rows at
\* all) from_rows and from_arrays return the transpose of the input, whose
\* rows() are the input rows.  Rows of zero width give a matrix without
\* columns, on which num_rows() is 0 and rows() is empty.  For rows that
\* differ in length from_rows panics in a build with debug assertions and
\* otherwise keeps, of every row, the entries that fall into the columns of
\* the first row, so rows() does not give the input back.
C16_TransposeOfEqualWidthRows ==
    FromRowsOrArrays =>
        LET input == mret.input
        IN  /\ (SameWidth(input) /\ (InputWidth >= 1 \/ input = <<>>)) =>
                  (mret.out.ok /\ Transposed(mat, input, InputWidth))
            /\ (SameWidth(input) /\ InputWidth = 0) =>
                  /\ mret.out.ok
                  /\ mat = <<>>
                  /\ num_rows(mat) = Ok(0)
                  /\ rows(mat) = Ok(<<>>)
            /\ ~SameWidth(input) =>
                  IF mret.debug_assertions
                  THEN ~mret.out.ok
                  ELSE /\ mret.out.ok
                       /\ num_cols(mat) = Width(input)
                       /\ \A j \in 1 .. Width(input) :
                             Len(mat[j])
                                = Cardinality({i \in 1 .. Len(input) :
                                                   Len(input[i]) >= j})
                       /\ rows(mat) # Ok(input)

\* from_rows has returned on three rows of width two that are not all equal
C16_Witness ==
    /\ mret.op = "from_rows"
    /\ mret.out.ok
    /\ Len(mret.input) = 3
    /\ SameWidth(mret.input)
    /\ Width(mret.input) = 2
    /\ mret.input[1][1] # mret.input[1][2]
    /\ mret.input[1] # mret.input[3]
    /\ rows(mat) = Ok(mret.input)

\* the lengths of the columns of a matrix
ColumnLengths(self) == {Len(self[j]) : j \in 1 .. Len(self)}

\* a matrix with two columns of different lengths
Ragged(self) == Cardinality(ColumnLengths(self)) >= 2

\* C17: num_rows() returns the common column length when all columns have the
\* same length and 0 when there is no column, and panics exactly when some
\* column's length differs from the first column's; num_cols() returns the
\* number of columns of any matrix, ragged or not.
C17_NumRowsChecksNumColsDoesNot ==
    /\ mret.op = "num_rows" =>
          /\ mat = <<>> => mret.out = Ok(0)
          /\ \A n \in ColumnLengths(mat) :
                ColumnLengths(mat) = {n} => mret.out = Ok(n)
          /\ ~mret.out.ok <=> (\E j \in 1 .. Len(mat) : Len(mat[j]) # Len(mat[1]))
    /\ mret.op = "num_cols" => mret.out = Ok(Len(mat))
    /\ mret.op = "is_empty" =>
          IF Ragged(mat) THEN ~mret.out.ok
          ELSE mret.out = Ok(ColumnLengths(mat) \subseteq {0})

\* num_rows has panicked on a matrix whose second column is shorter than its
\* first
C17_Witness ==
    /\ mret.op = "num_rows"
    /\ ~mret.out.ok
    /\ Len(mat) = 2
    /\ Len(mat[1]) = 3
    /\ Len(mat[2]) = 2

\* the accessors C18 names
RowAccessors ==
    {"get_row", "read_row", "rows", "hash_rows", "sum_columns", "column_degrees",
     "evaluate_at"}

\* the accessors that call num_rows()
CheckingAccessors ==
    {"num_rows", "is_empty", "get_row", "rows", "hash_rows", "sum_columns"}

\* C18 as claimed: every accessor applied to a matrix whose columns have
\* unequal lengths, a matrix left ragged by append included, panics instead of
\* returning a value.
C18_EveryAccessPanicsOnRagged ==
    (Ragged(mat) /\ mret.op \in RowAccessors) => ~mret.out.ok

\* C18 as amended: on a matrix whose columns have unequal lengths the
\* accessors that call num_rows() (num_rows, is_empty, get_row, rows,
\* hash_rows, sum_columns) panic; column_degrees and evaluate_at return one
\* value per column, num_cols returns the number of columns, read_row returns
\* the row whenever the index lies inside every column, and append and join
\* check nothing, so they return the ragged matrix.
C18_OnlyNumRowsCallersPanicOnRagged ==
    Ragged(mat) =>
        /\ mret.op \in CheckingAccessors => ~mret.out.ok
        /\ mret.op = "column_degrees" =>
              /\ mret.out.ok
              /\ Len(mret.out.val) = Len(mat)
        /\ mret.op = "evaluate_at" =>
              /\ mret.out.ok
              /\ Len(mret.out.val) = Len(mat)
        /\ mret.op = "num_cols" => mret.out = Ok(Len(mat))
        /\ mret.op = "read_row" =>
              /\ mret.out.ok <=> (\A j \in 1 .. Len(mat) : mret.arg < Len(mat[j]))
              /\ mret.out.ok =>
                    mret.out.val = [j \in 1 .. Len(mat) |-> mat[j][mret.arg + 1]]
        /\ mret.op \in {"append", "join"} => mret.out.ok

\* column_degrees has returned the degrees 2 and 0 of a matrix whose columns
\* have three entries and one entry
C18_Witness ==
    /\ mret.op = "column_degrees"
    /\ Ragged(mat)
    /\ Len(mat[1]) = 3
    /\ Len(mat[2]) = 1
    /\ mret.out = Ok(<<2, 0>>)

\* the number of columns of the first i matrices of a list
RECURSIVE ColumnsOfFirst(_, _)
ColumnsOfFirst(matrices, i) ==
    IF i = 0 THEN 0 ELSE ColumnsOfFirst(matrices, i - 1) + Len(matrices[i])

\* C19: append(other) leaves self's columns, unchanged and in order, followed
\* by other's; join(list) returns the columns of the list's matrices,
\* unchanged, in the order of the list and of each matrix; in both the number
\* of columns is the sum of the operands' numbers of columns.
C19_AppendAndJoinConcatenate ==
    /\ mret.op = "append" =>
          LET self == mret.self
              other == mret.other
          IN  /\ num_cols(mat) = num_cols(self) + num_cols(other)
              /\ \A j \in 1 .. Len(self) : mat[j] = self[j]
              /\ \A j \in 1 .. Len(other) : mat[Len(self) + j] = other[j]
    /\ mret.op = "join" =>
          LET matrices == mret.matrices
          IN  /\ num_cols(mat) = ColumnsOfFirst(matrices, Len(matrices))
              /\ \A i \in 1 .. Len(matrices) :
                    \A j \in 1 .. Len(matrices[i]) :
                        mat[ColumnsOfFirst(matrices, i - 1) + j] = matrices[i][j]

\* a column of one row has been appended to a matrix holding a different
\* column of three rows
C19_Witness ==
    /\ mret.op = "append"
    /\ Len(mret.self) = 1
    /\ Len(mret.other) = 1
    /\ Len(mret.self[1]) = 3
    /\ Len(mret.other[1]) = 1
    /\ mat = <<mret.self[1], mret.other[1]>>

\* the indices (0-based) of the non-zero coefficients of a column
NonZeroAt(col) == {k \in 0 .. (Len(col) - 1) : col[k + 1] # 0}

\* C20: column_degrees() returns, for every column, the index of its highest
\* non-zero coefficient, and 0 for an all-zero column and for an empty
\* column, the value it returns for a column whose only non-zero coefficient
\* is at index 0.
C20_DegreeIsHighestNonZeroIndex ==
    mret.op = "column_degrees" =>
        /\ mret.out.ok
        /\ Len(mret.out.val) = Len(mat)
        /\ \A j \in 1 .. Len(mat) :
              mret.out.val[j]
                = IF NonZeroAt(mat[j]) = {} THEN 0 ELSE SetMax(NonZeroAt(mat[j]))
        /\ \A j \in 1 .. Len(mat) :
              NonZeroAt(mat[j]) \subseteq {0} => mret.out.val[j] = 0

\* column_degrees has returned 0 and 1 for an all-zero column of three
\* entries and a column whose highest non-zero coefficient is at index 1
C20_Witness ==
    /\ mret.op = "column_degrees"
    /\ Len(mat) = 2
    /\ mat[1] = <<0, 0, 0>>
    /\ Len(mat[2]) = 3
    /\ mat[2][1] # 0
    /\ mat[2][2] # 0
    /\ mat[2][3] = 0
    /\ mret.out = Ok(<<0, 1>>)

\* C21: TraceInfo::new returns a TraceInfo carrying its arguments (an absent
\* meta as the empty byte string) if and only if base > 0, base + ext <= 255,
\* the meta has at most 65535 bytes and trace_len >= 2048; otherwise it
\* panics.
C21_TraceInfoNewIffValid ==
    fcall.fn = "TraceInfo::new" =>
        LET meta_bytes == IF fcall.meta = None THEN Bytes(0, 0) ELSE fcall.meta[1]
            valid == /\ fcall.num_base_columns > 0
                     /\ fcall.num_base_columns + fcall.num_extension_columns <= 255
                     /\ meta_bytes.len <= 65535
                     /\ fcall.trace_len >= 2048
        IN  /\ fcall.out.ok <=> valid
            /\ fcall.out.ok =>
                  fcall.out.val = [num_base_columns |-> fcall.num_base_columns,
                                  num_extension_columns |-> fcall.num_extension_columns,
                                  trace_len |-> fcall.trace_len,
                                  meta |-> meta_bytes]

QueriesCalled == fcall.fn = "Queries::new"

\* the rows of a matrix at the positions t .. m of a list, concatenated
RECURSIVE RowsAt(_, _, _)
RowsAt(matrix, positions, t) ==
    IF t > Len(positions) THEN <<>>
    ELSE rows(matrix).val[positions[t] + 1] \o RowsAt(matrix, positions, t + 1)

\* m proofs of a tree, entry t proving index p_t
ProofsOf(proofs, name, positions) ==
    /\ Len(proofs) = Len(positions)
    /\ \A t \in 1 .. Len(positions) :
          proofs[t] = [tree |-> name, index |-> positions[t]]

\* C22: a bundle returned by Queries::new over positions p_0..p_{m-1} holds
\* the execution LDE rows p_0..p_{m-1} concatenated (m * num_cols values),
\* likewise the composition LDE rows, m base proofs and m composition proofs
\* with entry t proving index p_t, and m extension proofs when an extension
\* commitment is given, none when it is None.
C22_BundleOrderedByPosition ==
    (QueriesCalled /\ fcall.out.ok) =>
        LET q == fcall.args
            bundle == fcall.out.val
            m == Len(q.positions)
        IN  /\ bundle.execution_trace_values
                  = RowsAt(q.execution_trace_lde, q.positions, 1)
            /\ Len(bundle.execution_trace_values) = m * num_cols(q.execution_trace_lde)
            /\ bundle.composition_trace_values
                  = RowsAt(q.composition_trace_lde, q.positions, 1)
            /\ Len(bundle.composition_trace_values)
                  = m * num_cols(q.composition_trace_lde)
            /\ ProofsOf(bundle.base_trace_proofs, "base", q.positions)
            /\ ProofsOf(bundle.composition_trace_proofs, "composition", q.positions)
            /\ IF q.extension_commitment = None
               THEN bundle.extension_trace_proofs = <<>>
               ELSE ProofsOf(bundle.extension_trace_proofs, "extension", q.positions)

\* a bundle over the positions 2 and 0, in that order, of an execution LDE of
\* two columns, with an extension commitment
C22_Witness ==
    /\ QueriesCalled
    /\ fcall.out.ok
    /\ fcall.args.positions = <<2, 0>>
    /\ num_cols(fcall.args.execution_trace_lde) = 2
    /\ fcall.args.extension_commitment # None
    /\ Len(fcall.out.val.execution_trace_values) = 4
    /\ Len(fcall.out.val.extension_trace_proofs) = 2
    /\ fcall.out.val.execution_trace_values[1] # fcall.out.val.execution_trace_values[3]

\* a position no tree rejects and both matrices hold a row for
InRange(q, position) ==
    /\ num_rows(q.execution_trace_lde).ok
    /\ position < num_rows(q.execution_trace_lde).val
    /\ position < num_rows(q.composition_trace_lde).val
    /\ position < q.base_commitment.num_leaves
    /\ position < q.composition_commitment.num_leaves
    /\ q.extension_commitment # None =>
          position < q.extension_commitment[1].num_leaves

\* C23: Queries::new panics, returning no bundle, whenever some requested
\* position is >= the row count of the execution or of the composition LDE
\* or is rejected by one of the trees, and returns otherwise; get_row returns
\* None exactly for row >= num_rows().
C23_OutOfRangeIsFatal ==
    QueriesCalled =>
        LET q == fcall.args
        IN  /\ fcall.out.ok
                 <=> (\A t \in 1 .. Len(q.positions) : InRange(q, q.positions[t]))
            /\ \A matrix \in {q.execution_trace_lde, q.composition_trace_lde} :
                  num_rows(matrix).ok =>
                     \A row \in RowCounts :
                        /\ get_row(matrix, row).ok
                        /\ (get_row(matrix, row).val = None)
                              <=> (row >= num_rows(matrix).val)

\* Queries::new has panicked on a second position that only the composition
\* tree rejects, after a first position in range
C23_Witness ==
    /\ QueriesCalled
    /\ ~fcall.out.ok
    /\ Len(fcall.args.positions) = 2
    /\ InRange(fcall.args, fcall.args.positions[1])
    /\ fcall.args.positions[2] = 2
    /\ fcall.args.composition_commitment.num_leaves = 2
    /\ InRange([fcall.args EXCEPT !.composition_commitment.num_leaves = 3],
               fcall.args.positions[2])

\* the phases made so far are an initial part of the protocol's order
PhasesInOrder ==
    /\ target_height # None => ingested = TableIds
    /\ proto.base # None =>
          /\ target_height # None
          /\ \A t \in TableIds : height(trace[t]) = target_height[1]
    /\ proto.challenges # None => proto.base # None
    /\ proto.extension # None => proto.challenges # None
    /\ (\E t \in TableIds : trace[t].extended_matrix # None) =>
          /\ proto.challenges # None
          /\ proto.extension \notin {None, Some(None)}
    /\ proto.composition # None => proto.extension # None
    /\ proto.positions # None => proto.composition # None
    /\ proto.queries # <<>> => proto.positions # None

\* a bundle is built from commitments that exist, and at most once
QueriesAfterCommitments ==
    /\ Len(proto.queries) <= 1
    /\ \A i \in 1 .. Len(proto.queries) :
          /\ proto.queries[i].base_commitment = proto.base[1]
          /\ proto.queries[i].extension_commitment = proto.extension[1]
          /\ proto.queries[i].composition_commitment = proto.composition[1]

\* the tables are as they were when the composition commitment was made
TablesFrozen == proto.committed # None => trace = proto.committed[1]

\* the run has ended: a call has panicked or the bundle has been handed out
RunEnded == proto.aborted \/ proto.moved

\* C24: in every run of the proving protocol the phases occur in order
\* (set_matrix, pad and base commitment, challenges, extend and extension
\* commitment, composition commitment, query positions), the Queries bundle
\* is built exactly once and only after the base, extension (if any) and
\* composition commitments exist, and no table is mutated after the
\* commitment phase completes.
C24_PhasesInOrderQueriesOnce ==
    /\ PhasesInOrder
    /\ QueriesAfterCommitments
    /\ TablesFrozen
    /\ RunEnded => Len(proto.queries) = 1

\* C25: the GPU and the CPU path of sum_columns are interchangeable: on every
\* matrix both return, and return the same matrix, or both fail.
C25_BackendsInterchangeable ==
    fcall.fn = "sum_columns" =>
        /\ fcall.cpu.ok <=> fcall.gpu.ok
        /\ fcall.cpu.ok => fcall.cpu.val = fcall.gpu.val

\* C26: in sum_columns_cpu over k >= 1 columns of n >= 0 rows, with any chunk
\* size the code can choose, the chunks exist, every index 0..n-1 lies in
\* exactly one chunk, the loop of a chunk reads and writes only indices of
\* its own chunk and of 0..n-1, and the result is the sequential element-wise
\* sum.
C26_ChunksAccumulateInRange ==
    (mret.op = "sum_columns" /\ num_rows(mat).ok /\ num_cols(mat) # 0) =>
        LET n == num_rows(mat).val
            size == chunk_size(n, mret.arg, SumChunkMin)
            chunks == chunks_mut(n, size)
        IN  /\ chunks.ok
            /\ \A idx \in 0 .. (n - 1) :
                  Cardinality({c \in DOMAIN chunks.val :
                                  /\ idx >= size * chunks.val[c].chunk_offset
                                  /\ idx < size * chunks.val[c].chunk_offset
                                              + chunks.val[c].len}) = 1
            /\ \A c \in DOMAIN chunks.val : \A i \in sum_loop_indices(size) :
                  /\ i < chunks.val[c].len
                  /\ size * chunks.val[c].chunk_offset + i < n
            /\ mret.out = Ok(<<[i \in 1 .. n |-> add_columns(mat, Len(mat), i)]>>)

\* C27: hash_rows over n >= 0 rows, zero rows included, with any chunk size
\* the code can choose, returns exactly n digests, digest i being the hash of
\* the values of row i in column order, and every row index lies in exactly
\* one chunk.
C27_OneDigestPerRow ==
    (mret.op = "hash_rows" /\ num_rows(mat).ok) =>
        LET n == num_rows(mat).val
            size == chunk_size(n, mret.arg, HashChunkMin)
            chunks == chunks_mut(n, size)
        IN  /\ chunks.ok
            /\ \A idx \in 0 .. (n - 1) :
                  Cardinality({c \in DOMAIN chunks.val :
                                  /\ idx >= size * chunks.val[c].chunk_offset
                                  /\ idx < size * chunks.val[c].chunk_offset
                                              + chunks.val[c].len}) = 1
            /\ mret.out.ok
            /\ Len(mret.out.val) = n
            /\ \A i \in 1 .. n :
                  mret.out.val[i] = hash_elements([j \in 1 .. Len(mat) |-> mat[j][i]])

\* C28: InputTable reads challenge 8 and terminal 2, OutputTable challenge 9
\* and terminal 3; the challenge of the transition generator is the one the
\* terminal generator raises to num_padded_rows; both generators panic on
\* fewer than 11 challenges and the terminal generator on fewer than 5
\* terminals.
C28_IoTablesIndexChallenges ==
    fcall.fn = "constraints" =>
        LET c == IF fcall.table = "input" THEN 8 ELSE 9
            t == IF fcall.table = "input" THEN 2 ELSE 3
        IN  /\ fcall.transition.ok <=> Len(fcall.challenges) >= 11
            /\ fcall.terminal.ok
                  <=> (Len(fcall.challenges) >= 11 /\ Len(fcall.terminals) >= 5)
            /\ fcall.transition.ok =>
                  fcall.transition.val
                      = extension_transition_constraints(fcall.challenges[c + 1])
            /\ fcall.terminal.ok =>
                  fcall.terminal.val
                      = <<PolySubConst(Variables(2)[EVALUATION + 1],
                             FMul(fcall.terminals[t + 1],
                                  FPow(fcall.challenges[c + 1],
                                       fcall.self.num_padded_rows)))>>

\* both generators of the input table have returned on 11 challenges and 5
\* terminals, on a table with padded rows, where taking challenge 9 or
\* terminal 3 instead would have given other polynomials
C28_Witness ==
    /\ fcall.fn = "constraints"
    /\ fcall.table = "input"
    /\ Len(fcall.challenges) = 11
    /\ Len(fcall.terminals) = 5
    /\ fcall.self.num_padded_rows > 0
    /\ fcall.transition.ok
    /\ fcall.terminal.ok
    /\ fcall.transition.val # extension_transition_constraints(fcall.challenges[10])
    /\ fcall.terminal.val
          # extension_terminal_constraints(fcall.self, fcall.challenges[10],
                                           fcall.terminals[3])
    /\ fcall.terminal.val
          # extension_terminal_constraints(fcall.self, fcall.challenges[9],
                                           fcall.terminals[4])

\* C29: for a stage built with 0 < n < 2^31 (half the range of a u32) and any
\* signed shift, the shift sent to the kernel lies in [0, n) and is congruent
\* to the shift modulo n, shifts below -n included.
C29_ShiftSentIsReduced ==
    (fcall.fn = "encode" /\ 0 < fcall.n /\ fcall.n < Pow2(U32Bits - 1)) =>
        /\ fcall.sent.ok
        /\ 0 <= fcall.sent.val
        /\ fcall.sent.val < fcall.n
        /\ (fcall.sent.val - fcall.shift) % fcall.n = 0

\* C30: Rpo256AbsorbColumnsStage::encode dispatches the kernel exactly when
\* each of the eight columns col0 to col7 has length n; otherwise it panics
\* on an assertion and encodes nothing.
C30_DispatchOnlyOnEqualLengths ==
    fcall.fn = "Rpo256AbsorbColumnsStage::encode" =>
        (fcall.out.ok <=> \A j \in 1 .. 8 : Len(fcall.columns[j]) = fcall.n)

=============================================================================
